---- MODULE Spec2Model ----
(***************************************************************************)
(* Retrieval orchestration core of the engineering-knowledge RAG chain:    *)
(* OOD gate -> retrieve and gate (L2) -> ambiguity short circuit ->        *)
(* coverage gate -> no-docs guard -> answer -> final output                *)
(* (src/src/rag/chain.py, build_rag_chain), with the option-selection      *)
(* second call of scripts/chat_cli.py.                                     *)
(*                                                                         *)
(* Distances and similarities are rendered on an integer grid: only their  *)
(* order and the threshold comparisons of the code matter.  A query is     *)
(* represented by the verdicts the compiled regex lists of config.py give  *)
(* on it.                                                                  *)
(***************************************************************************)
EXTENDS Integers, Sequences, FiniteSets, TLC

\* ------------------------------------------------------------------ bounds
\* Most documents the vector store holds for (returns to) one query.
MaxFetch == 3
\* Largest L2 distance on the grid (distances are 0..MaxDist).
MaxDist == 3
\* Largest cosine similarity level on the grid (levels are 0..MaxSim).
MaxSim == 1
\* final_k and max_options of RETRIEVAL_CONFIG, taken small enough for the
\* store above to overflow them.
FinalK == 2
MaxOptions == 2

\* ------------------------------------------------- configuration (config.py)
\* RETRIEVAL_CONFIG, rendered on the integer grid.
ConfigFetchK == 50
MaxL2 == 1
SoftMaxL2 == 2
MinKeep == 1
MinGap == 1
MinGroupGap == 2
MinSigSim == 1
MinSigSimGap == 1
MinAnchorSim == 1
MinAnchorSimGap == 1
FetchBuffer == 2

\* None of an optional integer (page, selected_option).
NoPage == -1
NoSelection == -1
\* None of an optional threshold (min_gap).
NoGap == -1
\* None of an optional string.
Null == "null"

\* The flags of the configuration objects the chain is built with.
ShippedConfig ==
    [ ood_enabled |-> TRUE,
      coverage_enabled |-> TRUE,
      strict_sig |-> FALSE,
      enable_sig_tiebreak |-> TRUE,
      enable_anchor_tiebreak |-> TRUE,
      enable_entity_resolve |-> TRUE,
      require_full_entity_coverage |-> FALSE,
      keep_ambiguous_for_generic_queries |-> TRUE ]

Configs == {ShippedConfig}

\* ------------------------------------------------------------ sequences
Min(a, b) == IF a <= b THEN a ELSE b
Max(a, b) == IF a >= b THEN a ELSE b
Abs(a) == IF a >= 0 THEN a ELSE -a

Range(s) == {s[i] : i \in 1..Len(s)}
Take(s, n) == SubSeq(s, 1, Min(Max(n, 0), Len(s)))

RECURSIVE LexLess(_, _)
\* Python's tuple / string comparison a < b on sequences of integers.
LexLess(a, b) ==
    IF b = <<>> THEN FALSE
    ELSE IF a = <<>> THEN TRUE
    ELSE IF a[1] < b[1] THEN TRUE
    ELSE IF a[1] > b[1] THEN FALSE
    ELSE LexLess(Tail(a), Tail(b))

\* sorted so far `perm` (indices into keys); insert index n after every index
\* whose key is not greater: list.sort is stable.
InsertIdx(perm, n, keys) ==
    LET later == {j \in 1..Len(perm) : LexLess(keys[n], keys[perm[j]])}
        pos == IF later = {} THEN Len(perm) + 1
               ELSE CHOOSE j \in later : \A k \in later : j <= k
    IN  SubSeq(perm, 1, pos - 1) \o <<n>> \o SubSeq(perm, pos, Len(perm))

RECURSIVE SortIdx(_, _)
SortIdx(keys, n) ==
    IF n = 0 THEN <<>> ELSE InsertIdx(SortIdx(keys, n - 1), n, keys)

\* list.sort(key=...) : s sorted, stably, by the integer-tuple keys.
SortedBy(s, keys) ==
    LET perm == SortIdx(keys, Len(s))
    IN  [i \in 1..Len(s) |-> s[perm[i]]]

\* ------------------------------------------------------------ documents
\* Document.metadata: source = <<directory, filename>>, page, the core tag
\* signature (domain, doc_type, product), entities.  id is object identity.
Corpus ==
    { [id |-> 1, source |-> <<"/x", "a.pdf">>, page |-> 1,
       sig |-> <<"mqtt", "spec", "mqtt">>, entities |-> {"mqtt"}],
      [id |-> 2, source |-> <<"/x", "a.pdf">>, page |-> 2,
       sig |-> <<"mqtt", "spec", "mqtt">>, entities |-> {"mqtt"}],
      [id |-> 3, source |-> <<"/x", "b.pdf">>, page |-> 10,
       sig |-> <<"kafka", "guide", "kafka">>, entities |-> {"kafka"}],
      [id |-> 4, source |-> <<"/y", "a.pdf">>, page |-> 1,
       sig |-> <<Null, Null, Null>>, entities |-> {}] }

\* Character codes of a file name's first letter: the order of sorted().
FileKey(filename) == IF filename = "a.pdf" THEN 97 ELSE 98
FileSignature(filename) ==
    IF filename = "a.pdf" THEN "__file__:a.pdf" ELSE "__file__:b.pdf"

Dists == 0..MaxDist
Sims == 0..MaxSim

\* What similarity_search_with_score can return: distinct documents of the
\* index, each with its distance, best first.
StoreResults ==
    UNION { { s \in [1..n -> [doc : Corpus, score : Dists]] :
                /\ \A i, j \in 1..n : i < j => s[i].doc.id # s[j].doc.id
                /\ \A i \in 1..(n - 1) : s[i].score <= s[i + 1].score }
            : n \in 0..MaxFetch }

\* ------------------------------------------------------------ queries
\* The verdicts of the regex lists on the input: blank (input.strip() is
\* empty), OOD deny / allow, coverage compare / generic markers, ambiguity
\* generic / facet query patterns, entity aliases.
Queries ==
    { [text |-> "", blank |-> TRUE, deny |-> FALSE, allow |-> FALSE,
       compare |-> FALSE, generic |-> FALSE, generic_query |-> FALSE,
       facet |-> FALSE, entities |-> {}],
      [text |-> "what is the weather today", blank |-> FALSE, deny |-> TRUE,
       allow |-> FALSE, compare |-> FALSE, generic |-> TRUE,
       generic_query |-> TRUE, facet |-> FALSE, entities |-> {}],
      [text |-> "mqtt weather station", blank |-> FALSE, deny |-> TRUE,
       allow |-> TRUE, compare |-> FALSE, generic |-> FALSE,
       generic_query |-> FALSE, facet |-> FALSE, entities |-> {"mqtt"}],
      [text |-> "hello there", blank |-> FALSE, deny |-> FALSE,
       allow |-> FALSE, compare |-> FALSE, generic |-> FALSE,
       generic_query |-> FALSE, facet |-> FALSE, entities |-> {}],
      [text |-> "mqtt qos 1", blank |-> FALSE, deny |-> FALSE,
       allow |-> TRUE, compare |-> FALSE, generic |-> FALSE,
       generic_query |-> FALSE, facet |-> TRUE, entities |-> {"mqtt"}],
      [text |-> "mqtt vs kafka", blank |-> FALSE, deny |-> FALSE,
       allow |-> TRUE, compare |-> TRUE, generic |-> FALSE,
       generic_query |-> FALSE, facet |-> FALSE,
       entities |-> {"mqtt", "kafka"}],
      [text |-> "what is mqtt", blank |-> FALSE, deny |-> FALSE,
       allow |-> TRUE, compare |-> FALSE, generic |-> TRUE,
       generic_query |-> TRUE, facet |-> FALSE, entities |-> {"mqtt"}],
      [text |-> "iot bluetooth pairing", blank |-> FALSE, deny |-> FALSE,
       allow |-> TRUE, compare |-> FALSE, generic |-> FALSE,
       generic_query |-> FALSE, facet |-> FALSE, entities |-> {}] }

\* ------------------------------------------------------- source references
Filename(doc) == doc.source[2]

\* normalize_page: an integer page is kept, None becomes "n/a" (NoPage).
NormalizePage(page) == IF page = NoPage THEN NoPage ELSE page

RECURSIVE Digits(_)
Digits(n) == IF n < 10 THEN <<48 + n>> ELSE Digits(n \div 10) \o <<48 + (n % 10)>>

\* str(page) as character codes: "n/a" for None, the decimal digits otherwise.
PageStr(page) == IF page = NoPage THEN <<110, 47, 97>> ELSE Digits(page)

GetSourceInfo(doc) == <<Filename(doc), PageStr(NormalizePage(doc.page))>>
DocSignature(doc) == GetSourceInfo(doc)
DocEntities(doc) == doc.entities

IsFromSameFile(doc_a, doc_b) == Filename(doc_a) = Filename(doc_b)

RECURSIVE DedupSources(_, _)
DedupSources(docs, seen) ==
    IF docs = <<>> THEN <<>>
    ELSE LET d == Head(docs)
             key == <<Filename(d), NormalizePage(d.page)>>
         IN  IF key \in seen THEN DedupSources(Tail(docs), seen)
             ELSE <<[filename |-> key[1], page |-> key[2]]>>
                  \o DedupSources(Tail(docs), seen \cup {key})

SourceKey(src) == <<FileKey(src.filename)>> \o PageStr(src.page)

CollectSources(docs) ==
    LET out == DedupSources(docs, {})
    IN  SortedBy(out, [i \in 1..Len(out) |-> SourceKey(out[i])])

\* ------------------------------------------------------------------ gating
ValidateAbsoluteGate(scored, max_l2) ==
    IF scored = <<>> THEN FALSE ELSE scored[1].score <= max_l2

\* The gap gate with the same-file exemption granted whatever the pages.
ValidateConfidenceGapGate_AnyPage(scored, min_gap) ==
    IF min_gap = NoGap THEN TRUE
    ELSE IF scored = <<>> THEN FALSE
    ELSE IF Len(scored) = 1 THEN TRUE
    ELSE ~(Abs(scored[2].score - scored[1].score) < min_gap
           /\ scored[1].doc.source # scored[2].doc.source)

ValidateConfidenceGapGate(scored, min_gap) ==
    IF min_gap = NoGap THEN TRUE
    ELSE IF scored = <<>> THEN FALSE
    ELSE IF Len(scored) = 1 THEN TRUE
    ELSE LET gap == Abs(scored[2].score - scored[1].score)
             same_file == scored[1].doc.source = scored[2].doc.source
             pages_close == /\ scored[1].doc.page # NoPage
                            /\ scored[2].doc.page # NoPage
                            /\ Abs(scored[1].doc.page - scored[2].doc.page) <= 2
         IN  ~(gap < min_gap /\ ~(same_file /\ pages_close))

\* The density gate counting the candidates without filtering them.
ValidateDensityGate_NoFilter(scored, max_l2, min_keep) ==
    IF Len(scored) >= min_keep
    THEN [some |-> TRUE, scored |-> scored]
    ELSE [some |-> FALSE, scored |-> <<>>]

\* The kept candidates, or <<"none">> when fewer than min_keep are kept.
ValidateDensityGate(scored, max_l2, min_keep) ==
    LET relevant == SelectSeq(scored, LAMBDA sd : sd.score <= max_l2)
    IN  IF Len(relevant) >= min_keep
        THEN [some |-> TRUE, scored |-> relevant]
        ELSE [some |-> FALSE, scored |-> <<>>]

DocsOf(scored) == [i \in 1..Len(scored) |-> scored[i].doc]

\* The gate without the cut to final_k.
GateScoredDocsL2_NoTrim(scored) ==
    IF ~ValidateAbsoluteGate(scored, MaxL2)
    THEN [docs |-> <<>>, status |-> "refuse"]
    ELSE LET relevant == ValidateDensityGate(scored, MaxL2, MinKeep)
         IN  IF ~relevant.some
             THEN [docs |-> <<>>, status |-> "refuse"]
             ELSE IF ~ValidateConfidenceGapGate(relevant.scored, MinGap)
             THEN [docs |-> <<>>, status |-> "ambiguous"]
             ELSE [docs |-> DocsOf(relevant.scored), status |-> "ok"]

GateScoredDocsL2(scored) ==
    IF ~ValidateAbsoluteGate(scored, MaxL2)
    THEN [docs |-> <<>>, status |-> "refuse"]
    ELSE LET relevant == ValidateDensityGate(scored, MaxL2, MinKeep)
         IN  IF ~relevant.some
             THEN [docs |-> <<>>, status |-> "refuse"]
             ELSE LET final_scored == Take(relevant.scored, FinalK)
                  IN  IF ~ValidateConfidenceGapGate(final_scored, MinGap)
                      THEN [docs |-> <<>>, status |-> "ambiguous"]
                      ELSE [docs |-> DocsOf(final_scored), status |-> "ok"]

\* ------------------------------------------------------------ tag clusters
TagSignature(doc, strict) == doc.sig

SafeTagSignature(doc, strict) ==
    LET sig == TagSignature(doc, strict)
    IN  IF \E i \in 1..Len(sig) : sig[i] # Null THEN sig
        ELSE <<FileSignature(Filename(doc))>> \o [i \in 1..(Len(sig) - 1) |-> Null]

RECURSIVE FirstSeen(_, _)
\* The keys of the bucket dict, in insertion order.
FirstSeen(sigs, seen) ==
    IF sigs = <<>> THEN <<>>
    ELSE IF Head(sigs) \in seen THEN FirstSeen(Tail(sigs), seen)
    ELSE <<Head(sigs)>> \o FirstSeen(Tail(sigs), seen \cup {Head(sigs)})

SortByScore(scored) ==
    SortedBy(scored, [i \in 1..Len(scored) |-> <<scored[i].score>>])

SortGroupsByBest(groups) ==
    SortedBy(groups, [i \in 1..Len(groups) |-> <<groups[i][1].score>>])

\* The grouping by the tag signature alone, without the file-name fallback.
GroupScoredByTagSignature_NoFallback(scored, strict) ==
    LET sigs == [i \in 1..Len(scored) |-> TagSignature(scored[i].doc, strict)]
        keys == FirstSeen(sigs, {})
        bucket(k) == SelectSeq(scored,
                       LAMBDA sd : TagSignature(sd.doc, strict) = k)
        groups == [i \in 1..Len(keys) |-> SortByScore(bucket(keys[i]))]
    IN  SortGroupsByBest(groups)

GroupScoredByTagSignature(scored, strict) ==
    LET sigs == [i \in 1..Len(scored) |-> SafeTagSignature(scored[i].doc, strict)]
        keys == FirstSeen(sigs, {})
        bucket(k) == SelectSeq(scored,
                       LAMBDA sd : SafeTagSignature(sd.doc, strict) = k)
        groups == [i \in 1..Len(keys) |-> SortByScore(bucket(keys[i]))]
    IN  SortGroupsByBest(groups)

\* ------------------------------------------------- query classification
IsGenericQuery(query, cfg) ==
    /\ cfg.keep_ambiguous_for_generic_queries
    /\ ~query.blank
    /\ query.generic_query

IsFacetQuery(query, cfg) == ~query.blank /\ query.facet

\* EntityExtractor.extract
ExtractEntities(query) == IF query.blank THEN {} ELSE query.entities

IsGenericUnderspecified(query, cfg) ==
    IF ~IsGenericQuery(query, cfg) THEN FALSE
    ELSE IF IsFacetQuery(query, cfg) THEN FALSE
    ELSE ExtractEntities(query) = {}

\* The overview test that no query passes.
IsOverviewQuery_Never(query, cfg) == FALSE

IsOverviewQuery(query, cfg) ==
    IF ~IsGenericQuery(query, cfg) THEN FALSE ELSE ~IsFacetQuery(query, cfg)

\* ------------------------------------------------- entity-coverage resolve
ExtractGroupEntities(group) == UNION {DocEntities(sd.doc) : sd \in Range(group)}

DocsEntityHits(group, query_entities) ==
    Cardinality({i \in 1..Len(group) :
                   DocEntities(group[i].doc) \cap query_entities # {}})

AnchorEntityHits(group, query_entities) ==
    Cardinality(DocEntities(group[1].doc) \cap query_entities)

GroupEntityHits(group, query_entities) ==
    Cardinality(ExtractGroupEntities(group) \cap query_entities)

NoGroups == [some |-> FALSE, groups |-> <<>>]

\* Entity resolve that takes the closest group without counting hits.
ResolveByEntityCoverage_Closest(groups, query, cfg) ==
    IF ~cfg.enable_entity_resolve THEN NoGroups
    ELSE IF ExtractEntities(query) = {} THEN NoGroups
    ELSE IF groups = <<>> THEN NoGroups
    ELSE [some |-> TRUE, groups |-> <<groups[1]>>]

\* Entity resolve that does not look at require_full_entity_coverage.
ResolveByEntityCoverage_AnyCoverage(groups, query, cfg) ==
    IF ~cfg.enable_entity_resolve THEN NoGroups
    ELSE IF ExtractEntities(query) = {} THEN NoGroups
    ELSE IF groups = <<>> THEN NoGroups
    ELSE
      LET query_id == ExtractEntities(query)
          hit(i) == Cardinality(query_id \cap ExtractGroupEntities(groups[i]))
          max_hit == CHOOSE h \in {hit(i) : i \in 1..Len(groups)} :
                        \A i \in 1..Len(groups) : hit(i) <= h
          winners == SelectSeq([i \in 1..Len(groups) |-> i],
                               LAMBDA i : hit(i) = max_hit)
      IN  IF max_hit <= 0 THEN NoGroups
          ELSE IF Len(winners) = 1
          THEN [some |-> TRUE, groups |-> <<groups[winners[1]]>>]
          ELSE
            LET rank(i) == <<AnchorEntityHits(groups[i], query_id),
                             DocsEntityHits(groups[i], query_id),
                             GroupEntityHits(groups[i], query_id),
                             groups[i][1].score>>
                ranked == SortedBy(winners,
                            [k \in 1..Len(winners) |->
                               <<-rank(winners[k])[1], -rank(winners[k])[2],
                                 -rank(winners[k])[3], rank(winners[k])[4]>>])
                cmp(i) == <<rank(i)[1], rank(i)[2], rank(i)[3], -rank(i)[4]>>
            IN  IF LexLess(cmp(ranked[2]), cmp(ranked[1]))
                THEN [some |-> TRUE, groups |-> <<groups[ranked[1]]>>]
                ELSE [some |-> TRUE,
                      groups |-> SortGroupsByBest(
                                   [k \in 1..Len(ranked) |-> groups[ranked[k]]])]

\* None, or the list of groups entity coverage narrows the groups to.
ResolveByEntityCoverage(groups, query, cfg) ==
    IF ~cfg.enable_entity_resolve THEN NoGroups
    ELSE IF ExtractEntities(query) = {} THEN NoGroups
    ELSE IF groups = <<>> THEN NoGroups
    ELSE
      LET query_id == ExtractEntities(query)
          hit(i) == Cardinality(query_id \cap ExtractGroupEntities(groups[i]))
          max_hit == CHOOSE h \in {hit(i) : i \in 1..Len(groups)} :
                        \A i \in 1..Len(groups) : hit(i) <= h
          winners == SelectSeq([i \in 1..Len(groups) |-> i],
                               LAMBDA i : hit(i) = max_hit)
      IN  IF max_hit <= 0 THEN NoGroups
          ELSE IF cfg.require_full_entity_coverage /\ max_hit < Cardinality(query_id)
          THEN NoGroups
          ELSE IF Len(winners) = 1
          THEN [some |-> TRUE, groups |-> <<groups[winners[1]]>>]
          ELSE
            LET rank(i) == <<AnchorEntityHits(groups[i], query_id),
                             DocsEntityHits(groups[i], query_id),
                             GroupEntityHits(groups[i], query_id),
                             groups[i][1].score>>
                ranked == SortedBy(winners,
                            [k \in 1..Len(winners) |->
                               <<-rank(winners[k])[1], -rank(winners[k])[2],
                                 -rank(winners[k])[3], rank(winners[k])[4]>>])
                cmp(i) == <<rank(i)[1], rank(i)[2], rank(i)[3], -rank(i)[4]>>
            IN  IF LexLess(cmp(ranked[2]), cmp(ranked[1]))
                THEN [some |-> TRUE, groups |-> <<groups[ranked[1]]>>]
                ELSE [some |-> TRUE,
                      groups |-> SortGroupsByBest(
                                   [k \in 1..Len(ranked) |-> groups[ranked[k]]])]

\* ------------------------------------------------------ entity augmenter
RECURSIVE AugmentLoop_AnyUnseen(_, _, _, _, _, _)
\* The for loop over the candidates without the test on the missing
\* entities: every unseen candidate is appended.
AugmentLoop_AnyUnseen(candidates, picked, seen, covered, query_entities, final_k) ==
    IF candidates = <<>> THEN picked
    ELSE IF Len(picked) >= final_k THEN picked
    ELSE
      LET doc == Head(candidates).doc
          sig == DocSignature(doc)
      IN  IF sig \in seen
          THEN AugmentLoop_AnyUnseen(Tail(candidates), picked, seen, covered,
                                     query_entities, final_k)
          ELSE IF query_entities \ (covered \cup DocEntities(doc)) = {}
          THEN Append(picked, doc)
          ELSE AugmentLoop_AnyUnseen(Tail(candidates), Append(picked, doc),
                                     seen \cup {sig}, covered \cup DocEntities(doc),
                                     query_entities, final_k)

RECURSIVE AugmentLoop(_, _, _, _, _, _)
\* The for loop over the candidates; the result is picked.
AugmentLoop(candidates, picked, seen, covered, query_entities, final_k) ==
    IF candidates = <<>> THEN picked
    ELSE IF Len(picked) >= final_k THEN picked
    ELSE
      LET doc == Head(candidates).doc
          sig == DocSignature(doc)
          missing == query_entities \ covered
      IN  IF sig \in seen
          THEN AugmentLoop(Tail(candidates), picked, seen, covered,
                           query_entities, final_k)
          ELSE IF missing \cap DocEntities(doc) = {}
          THEN AugmentLoop(Tail(candidates), picked, seen, covered,
                           query_entities, final_k)
          ELSE IF query_entities \ (covered \cup DocEntities(doc)) = {}
          THEN Append(picked, doc)
          ELSE AugmentLoop(Tail(candidates), Append(picked, doc),
                           seen \cup {sig}, covered \cup DocEntities(doc),
                           query_entities, final_k)

CoveredBy(docs) == UNION {DocEntities(d) : d \in Range(docs)}
SeenOf(docs) == {DocSignature(d) : d \in Range(docs)}

AugmentDocsToCoverEntities(chosen_docs, candidates, query_entities, final_k) ==
    IF query_entities = {} \/ final_k <= 0 THEN Take(chosen_docs, final_k)
    ELSE IF query_entities \ CoveredBy(chosen_docs) = {}
    THEN Take(chosen_docs, final_k)
    ELSE
      LET missing == query_entities \ CoveredBy(chosen_docs)
          reserve == Min(final_k - 1, Max(1, Cardinality(missing)))
          keep_n == Max(1, final_k - reserve)
          picked == IF Len(chosen_docs) >= final_k
                    THEN Take(chosen_docs, keep_n) ELSE chosen_docs
      IN  Take(AugmentLoop(candidates, picked, SeenOf(picked), CoveredBy(picked),
                           query_entities, final_k),
               final_k)

EnsureEntitiesCoverage(scored, docs, query, final_k, cfg) ==
    IF ExtractEntities(query) # {}
    THEN AugmentDocsToCoverEntities(docs, scored, ExtractEntities(query), final_k)
    ELSE docs

\* --------------------------------------------------------- option presenter
OptionSignature(option) ==
    LET pairs == [i \in 1..Len(option.sources) |->
                    <<option.sources[i].filename, PageStr(option.sources[i].page)>>]
    IN  SortedBy(pairs, [i \in 1..Len(pairs) |->
                           <<FileKey(pairs[i][1])>> \o pairs[i][2]])

RECURSIVE KeepFirstBySignature(_, _)
KeepFirstBySignature(options, seen) ==
    IF options = <<>> THEN <<>>
    ELSE LET signature == OptionSignature(Head(options))
         IN  IF signature \in seen
             THEN KeepFirstBySignature(Tail(options), seen)
             ELSE <<Head(options)>>
                  \o KeepFirstBySignature(Tail(options), seen \cup {signature})

\* Renumbering without the signature filter.
DeduplicateOptions_KeepAll(options) ==
    [i \in 1..Len(options) |->
       [option_id |-> i, docs |-> options[i].docs,
        sources |-> options[i].sources, best_l2 |-> options[i].best_l2]]

\* The signature filter without the renumbering.
DeduplicateOptions_KeepIds(options) == KeepFirstBySignature(options, {})

DeduplicateOptions(options) ==
    LET outs == KeepFirstBySignature(options, {})
    IN  [i \in 1..Len(outs) |->
           [option_id |-> i, docs |-> outs[i].docs,
            sources |-> outs[i].sources, best_l2 |-> outs[i].best_l2]]

PrioritizeDocumentsForAnchor(anchor, scored) ==
    LET others == SelectSeq(scored, LAMBDA sd : sd.doc.id # anchor.id)
        same_file_docs == SelectSeq(others, LAMBDA sd : IsFromSameFile(anchor, sd.doc))
        other_docs == SelectSeq(others, LAMBDA sd : ~IsFromSameFile(anchor, sd.doc))
    IN  DocsOf(same_file_docs) \o DocsOf(other_docs)

RECURSIVE SelectLoop(_, _, _, _, _)
\* The three phases over the candidates; st holds picked and the seen sets.
SelectLoop(phase, i, st, candidates, need) ==
    IF phase > 2 THEN st.picked
    ELSE IF i > Len(candidates) THEN SelectLoop(phase + 1, 1, st, candidates, need)
    ELSE IF Len(st.picked) >= need THEN st.picked
    ELSE
      LET candidate == candidates[i]
          sig == DocSignature(candidate)
          filename == sig[1]
          page == sig[2]
          should_pick == CASE phase = 0 -> page \notin st.seen_pages
                           [] phase = 1 -> filename \notin st.seen_files
                           [] OTHER -> TRUE
      IN  IF sig \in st.seen_signatures \/ ~should_pick
          THEN SelectLoop(phase, i + 1, st, candidates, need)
          ELSE SelectLoop(phase, i + 1,
                 [picked |-> Append(st.picked, candidate),
                  seen_signatures |-> st.seen_signatures \cup {sig},
                  seen_files |-> st.seen_files \cup {filename},
                  seen_pages |-> st.seen_pages \cup {page}],
                 candidates, need)

\* The selection that takes the first candidates whatever their source.
SelectDistinctDocs_AnyDocs(anchor, candidates, need) == Take(candidates, need)

SelectDistinctDocs(anchor, candidates, need) ==
    IF need <= 0 THEN <<>>
    ELSE SelectLoop(0, 1,
           [picked |-> <<>>,
            seen_signatures |-> {DocSignature(anchor)},
            seen_files |-> {GetSourceInfo(anchor)[1]},
            seen_pages |-> {GetSourceInfo(anchor)[2]}],
           candidates, need)

PrepareRetrievalOptions(groups, cfg, effective_k) ==
    LET safe_k == Max(0, effective_k - 1)
        shown == Take(groups, MaxOptions)
        option(i) ==
          LET group == shown[i]
              anchor == group[1].doc
              picked == SelectDistinctDocs(anchor,
                          PrioritizeDocumentsForAnchor(anchor, group), safe_k)
              docs == <<anchor>> \o picked
          IN  [option_id |-> i, docs |-> docs, sources |-> CollectSources(docs),
               best_l2 |-> group[1].score]
    IN  DeduplicateOptions([i \in 1..Len(shown) |-> option(i)])

\* ------------------------------------------------------------ tie-breakers
\* The process before the first call of _embed_text_cached: the function has
\* no _cache attribute (attr 0) and no dict was made for it.
NoCache == [attr |-> 0, dicts |-> <<>>]

\* Embedding vectors and their cosine similarity, on the grid of Sims.
Vectors == 0..MaxSim
CosineSim(a, b) == MaxSim - Abs(a - b)

\* _render_signature_text: the labelled non-null fields of the signature.
RenderSignatureText(sig) ==
    LET labels == <<"domain", "doc_type", "product">>
        parts == SelectSeq([i \in 1..Len(sig) |-> <<labels[i], sig[i]>>],
                           LAMBDA part : part[2] # Null)
    IN  IF parts = <<>> THEN <<<<"signature", "unknown">>>> ELSE parts

\* getattr(_embed_text_cached, "_cache", {}): the entries of the dict the
\* attribute refers to, none without the attribute.
CacheDict(c) == IF c.attr = 0 THEN {} ELSE c.dicts[c.attr]

HasKey(dict, key) == \E e \in dict : e.key = key
Lookup(dict, key) == (CHOOSE e \in dict : e.key = key).vector

\* dict[key] = vector
Put(dict, key, vector) ==
    {e \in dict : e.key # key} \cup {[key |-> key, vector |-> vector]}

\* cache[key] = vector; setattr(_embed_text_cached, "_cache", cache), run
\* without interruption.
Stored(c, key, vector) ==
    IF c.attr = 0
    THEN [attr |-> Len(c.dicts) + 1,
          dicts |-> Append(c.dicts, Put({}, key, vector))]
    ELSE [c EXCEPT !.dicts[c.attr] = Put(@, key, vector)]

\* The cache whose hits return an entry without looking at its text.
EmbedTextCached_AnyText(c, embed_docs, text) ==
    IF HasKey(CacheDict(c), text)
    THEN [vector |-> (CHOOSE e \in CacheDict(c) : TRUE).vector, cache |-> c]
    ELSE [vector |-> embed_docs[text],
          cache |-> Stored(c, text, embed_docs[text])]

\* _embed_text_cached run by one thread: the vector and the cache after it.
\* The process has one embedder, so the key (id(embed_docs), text) is
\* rendered by the text.
EmbedTextCached(c, embed_docs, text) ==
    IF HasKey(CacheDict(c), text)
    THEN [vector |-> Lookup(CacheDict(c), text), cache |-> c]
    ELSE [vector |-> embed_docs[text],
          cache |-> Stored(c, text, embed_docs[text])]

RECURSIVE EmbedSignatures(_, _, _)
RECURSIVE EmbedRest(_, _, _)

\* The loop of pick_group_by_query_embedding over the signature texts: their
\* vectors, and the cache after the loop.
EmbedSignatures(texts, c, embed_docs) ==
    IF texts = <<>> THEN [vectors |-> <<>>, cache |-> c]
    ELSE EmbedRest(EmbedTextCached(c, embed_docs, Head(texts)), Tail(texts),
                   embed_docs)

EmbedRest(first, texts, embed_docs) ==
    [vectors |-> <<first.vector>>
                   \o EmbedSignatures(texts, first.cache, embed_docs).vectors,
     cache |-> EmbedSignatures(texts, first.cache, embed_docs).cache]

\* sims of pick_group_by_query_embedding, in the order of group_sigs.
SimsOf(q_vector, vectors) ==
    [i \in 1..Len(vectors) |-> CosineSim(q_vector, vectors[i])]

\* The pick that does not look at the runner-up.
PickBySimilarity_NoGap(sims, min_sim, min_sim_gap) ==
    IF Len(sims) = 0 THEN 0
    ELSE
      LET order == SortedBy([i \in 1..Len(sims) |-> i],
                            [i \in 1..Len(sims) |-> <<-sims[i]>>])
      IN  IF sims[order[1]] < min_sim THEN 0 ELSE order[1]

\* sims[i]: the cosine similarity of the query to candidate i.  The index of
\* the accepted candidate, or 0 for None.
PickBySimilarity(sims, min_sim, min_sim_gap) ==
    IF Len(sims) = 0 THEN 0
    ELSE
      LET order == SortedBy([i \in 1..Len(sims) |-> i],
                            [i \in 1..Len(sims) |-> <<-sims[i]>>])
          best_sim == sims[order[1]]
          second_sim == IF Len(sims) >= 2 THEN sims[order[2]] ELSE -1
      IN  IF best_sim < min_sim THEN 0
          ELSE IF Len(sims) >= 2 /\ (best_sim - second_sim) < min_sim_gap THEN 0
          ELSE order[1]

PickGroupByQueryEmbedding(group_sigs, sims) ==
    IF group_sigs = <<>> THEN 0 ELSE PickBySimilarity(sims, MinSigSim, MinSigSimGap)

PickGroupByAnchorContent(anchors, sims) ==
    IF anchors = <<>> THEN 0
    ELSE PickBySimilarity(sims, MinAnchorSim, MinAnchorSimGap)

NoDocs == [some |-> FALSE, docs |-> <<>>]

TiebreakSignatureEmbedding(groups, sig_sims, cfg) ==
    IF ~cfg.enable_sig_tiebreak THEN NoDocs
    ELSE
      LET group_sigs == [i \in 1..Len(groups) |->
                           SafeTagSignature(groups[i][1].doc, cfg.strict_sig)]
          picked == PickGroupByQueryEmbedding(group_sigs, sig_sims)
      IN  IF picked = 0 THEN NoDocs
          ELSE LET winner_idx == CHOOSE i \in 1..Len(groups) :
                                   /\ group_sigs[i] = group_sigs[picked]
                                   /\ \A j \in 1..(i - 1) :
                                        group_sigs[j] # group_sigs[picked]
               IN  [some |-> TRUE, docs |-> DocsOf(groups[winner_idx])]

TiebreakAnchorEmbedding(groups, anchor_sims, cfg) ==
    IF ~cfg.enable_anchor_tiebreak THEN NoDocs
    ELSE IF Len(groups) < 2 THEN NoDocs
    ELSE LET picked == PickGroupByAnchorContent(groups, anchor_sims)
         IN  IF picked = 0 THEN NoDocs
             ELSE [some |-> TRUE, docs |-> DocsOf(groups[picked])]

\* embed_docs is None unless a tie-breaker is enabled (AmbiguityConfig.from_dict).
HasEmbedder(cfg) == cfg.enable_sig_tiebreak \/ cfg.enable_anchor_tiebreak

TiebreakGroupsByQueryAware(groups, sig_sims, anchor_sims, cfg) ==
    IF ~HasEmbedder(cfg) THEN NoDocs
    ELSE IF Len(groups) < 2 THEN NoDocs
    ELSE LET sig_docs == TiebreakSignatureEmbedding(groups, sig_sims, cfg)
         IN  IF sig_docs.some THEN sig_docs
             ELSE TiebreakAnchorEmbedding(groups, anchor_sims, cfg)

\* The group-gap step that never resolves.
ResolveByGroupsScoreGap_Never(groups, cfg) == NoDocs

ResolveByGroupsScoreGap(groups, cfg) ==
    IF Len(groups) >= 2 /\ groups[2][1].score - groups[1][1].score >= MinGroupGap
    THEN [some |-> TRUE, docs |-> DocsOf(groups[1])]
    ELSE NoDocs

\* ------------------------------------------------------ ambiguity resolver
\* How far _resolve_tag_ambiguity gets before it needs the embedder: the step
\* that decides, and the groups it decides on.  The stages below follow the
\* function top to bottom, each taking what the lines above it computed.

\* groups = resolved_groups or groups
LeftGroups(groups, resolved) ==
    IF resolved.some THEN resolved.groups ELSE groups

\* From the entity-resolve block on: resolved is what
\* _resolve_by_entity_coverage returned, left the groups it leaves.
AmbiguityAfterEntity(resolved, left, cfg) ==
    IF resolved.some /\ Len(left) = 1
    THEN [step |-> "entity", groups |-> left]
    ELSE IF ResolveByGroupsScoreGap(left, cfg).some
    THEN [step |-> "group_gap", groups |-> left]
    ELSE [step |-> "tiebreak", groups |-> left]

AmbiguityOnResolved(groups, resolved, cfg) ==
    AmbiguityAfterEntity(resolved, LeftGroups(groups, resolved), cfg)

\* From the overview override on: groups is what
\* _group_scored_by_tag_signature returned.
AmbiguityOnGroups(groups, query, cfg) ==
    IF Len(groups) >= 2 /\ IsOverviewQuery(query, cfg)
    THEN [step |-> "overview", groups |-> groups]
    ELSE IF Len(groups) = 1
    THEN [step |-> "single", groups |-> groups]
    ELSE IF Len(groups) >= 2 /\ IsGenericUnderspecified(query, cfg)
    THEN [step |-> "underspecified", groups |-> groups]
    ELSE AmbiguityOnResolved(groups,
                             ResolveByEntityCoverage(groups, query, cfg), cfg)

AmbiguityGroups(scored, query, cfg) ==
    AmbiguityOnGroups(GroupScoredByTagSignature(scored, cfg.strict_sig),
                      query, cfg)

\* What _tiebreak_groups_by_query_aware can return on these groups: one
\* result for every answer of the embedder (the cosine similarity of the query
\* to each group's signature text and to each group's anchor content).  The
\* signature step reads the first similarities only and the anchor step runs
\* only when the signature step picked nothing, as it does on similarities
\* of 0, so the answers are taken one list at a time with the other at 0.
TiebreakOutcomes(groups, cfg) ==
    LET none == [i \in 1..Len(groups) |-> 0]
    IN  { TiebreakGroupsByQueryAware(groups, sig_sims, none, cfg) :
            sig_sims \in [1..Len(groups) -> Sims] }
        \cup
        { TiebreakGroupsByQueryAware(groups, none, anchor_sims, cfg) :
            anchor_sims \in [1..Len(groups) -> Sims] }

\* return [], True, _ensure_entities_coverage(...docs[:effective_k]...)
AutoResolved(scored, docs, query, effective_k, cfg, emb) ==
    [options |-> <<>>, auto_resolved |-> TRUE,
     docs |-> EnsureEntitiesCoverage(scored, Take(docs, effective_k),
                                     query, effective_k, cfg),
     embedded |-> emb]

\* return _prepare_retrieval_options(...), False, []
PresentOptions(groups, cfg, effective_k, emb) ==
    [options |-> PrepareRetrievalOptions(groups, cfg, effective_k),
     auto_resolved |-> FALSE, docs |-> <<>>, embedded |-> emb]

\* The return _resolve_tag_ambiguity takes, given how far it got (at).
ResolveAt(at, scored, query, effective_k, cfg, winner) ==
    CASE at.step \in {"overview", "underspecified"} ->
           PresentOptions(at.groups, cfg, effective_k, FALSE)
      [] at.step \in {"single", "entity", "group_gap"} ->
           AutoResolved(scored, DocsOf(at.groups[1]), query, effective_k, cfg,
                        FALSE)
      [] OTHER ->
           IF winner.some
           THEN AutoResolved(scored, winner.docs, query, effective_k, cfg, TRUE)
           ELSE PresentOptions(at.groups, cfg, effective_k,
                               HasEmbedder(cfg) /\ Len(at.groups) >= 2)

\* (options, auto_resolved, resolved_docs) of _resolve_tag_ambiguity, and
\* whether the embedder was called; winner is what the query-aware tie-break
\* returns when the resolver gets to it.
ResolveTagAmbiguity(scored, query, final_k, cfg, winner) ==
    IF scored = <<>>
    THEN [options |-> <<>>, auto_resolved |-> FALSE, docs |-> <<>>,
          embedded |-> FALSE]
    ELSE ResolveAt(AmbiguityGroups(scored, query, cfg), scored, query,
                   Max(1, final_k), cfg, winner)

\* ------------------------------------------------------ retrieve and gate
CalculateSafeFetchK == Max(FinalK + 2 * MaxOptions + FetchBuffer, ConfigFetchK)

FetchScoredDocsL2(listing, fetch_k) == SortByScore(Take(listing, fetch_k))

Reason(kind) == [kind |-> kind, selection |-> NoSelection, missing |-> {}]
NoReason == Reason(Null)

\* The state updates of retriever.py: docs, status, options, selected_option
\* and refusal_reason are overwritten, every other key is kept.
OkState(docs) ==
    [docs |-> docs, status |-> "ok", options |-> <<>>,
     selected_option |-> NoSelection, refusal_reason |-> NoReason]

RetrieverRefuseState(reason) ==
    [docs |-> <<>>, status |-> "refuse", options |-> <<>>,
     selected_option |-> NoSelection, refusal_reason |-> reason]

AmbiguousState(options) ==
    [docs |-> <<>>, status |-> "ambiguous", options |-> options,
     selected_option |-> NoSelection, refusal_reason |-> NoReason]

\* The tie-break results possible in this invocation (None alone when the
\* resolver does not get to the tie-break).
TiebreakRepliesAt(at, cfg) ==
    IF at.step = "tiebreak" THEN TiebreakOutcomes(at.groups, cfg) ELSE {NoDocs}

TiebreakRepliesScored(scored, query, cfg) ==
    IF GateScoredDocsL2(scored).status = "ambiguous"
    THEN TiebreakRepliesAt(AmbiguityGroups(scored, query, cfg), cfg)
    ELSE {NoDocs}

TiebreakReplies(listing, query, cfg) ==
    TiebreakRepliesScored(FetchScoredDocsL2(listing, CalculateSafeFetchK),
                          query, cfg)

\* The lookup with the selection read as a zero-based position.
ChosenOption_ZeroBased(opts, selected) ==
    SelectSeq(opts, LAMBDA o : o.option_id - 1 = selected)

\* The lookup falling back to the first option when the id is unknown.
ChosenOption_Fallback(opts, selected) ==
    IF SelectSeq(opts, LAMBDA o : o.option_id = selected) = <<>>
    THEN Take(opts, 1)
    ELSE SelectSeq(opts, LAMBDA o : o.option_id = selected)

\* next((option for option in options if option.option_id == selected), None)
ChosenOption(opts, selected) ==
    SelectSeq(opts, LAMBDA o : o.option_id = selected)

\* raw_options, auto_resolved of _step; these values when the resolver is
\* not called.
NoResolver == [auto_resolved |-> FALSE, raw_options |-> <<>>]

\* _step on an option selection: chosen is the lookup's result.
StepSelected(chosen, selected) ==
    IF chosen = <<>>
    THEN RetrieverRefuseState(
           [Reason("Invalid selection") EXCEPT !.selection = selected])
    ELSE OkState(chosen[1].docs)

\* _step keeping a single raw option as an ambiguous state.
StepResolved_NoCollapse(r) ==
    [state |-> IF r.auto_resolved THEN OkState(r.docs)
               ELSE IF Len(r.options) = 0
               THEN RetrieverRefuseState(
                      Reason("Ambiguous gate produced no valid options"))
               ELSE AmbiguousState(r.options),
     gate |-> "ambiguous", searched |-> TRUE, embedded |-> r.embedded,
     resolver |-> [auto_resolved |-> r.auto_resolved,
                   raw_options |-> r.options]]

\* _step after _resolve_tag_ambiguity has returned r.
StepResolved(r) ==
    [state |-> IF r.auto_resolved THEN OkState(r.docs)
               ELSE IF Len(r.options) = 1 THEN OkState(r.options[1].docs)
               ELSE IF Len(r.options) = 0
               THEN RetrieverRefuseState(
                      Reason("Ambiguous gate produced no valid options"))
               ELSE AmbiguousState(r.options),
     gate |-> "ambiguous", searched |-> TRUE, embedded |-> r.embedded,
     resolver |-> [auto_resolved |-> r.auto_resolved,
                   raw_options |-> r.options]]

\* _step after gate_scored_docs_l2 has returned gated: the match on status.
StepGated(scored, gated, query, cfg, winner) ==
    CASE gated.status = "ambiguous" ->
           StepResolved(ResolveTagAmbiguity(scored, query, FinalK, cfg, winner))
      [] gated.status = "refuse" ->
           [state |-> RetrieverRefuseState(Reason("No relevant documents found")),
            gate |-> gated.status, searched |-> TRUE, embedded |-> FALSE,
            resolver |-> NoResolver]
      [] OTHER ->
           [state |-> IF gated.docs = <<>>
                      THEN RetrieverRefuseState(
                             Reason("OK status but empty documents (unexpected)"))
                      ELSE OkState(gated.docs),
            gate |-> gated.status, searched |-> TRUE, embedded |-> FALSE,
            resolver |-> NoResolver]

\* _step after fetch_scored_docs_l2 has returned scored.
StepScored(scored, query, cfg, winner) ==
    StepGated(scored, GateScoredDocsL2(scored), query, cfg, winner)

\* build_retrieve_and_gate_l2._step: the new state keys, gate (the gate's
\* verdict, Null when the gate did not run), searched and embedded.
Step(selected, opts, query, listing, cfg, winner) ==
    IF selected # NoSelection /\ opts # <<>>
    THEN [state |-> StepSelected(ChosenOption(opts, selected), selected),
          gate |-> Null, searched |-> FALSE, embedded |-> FALSE,
          resolver |-> NoResolver]
    ELSE StepScored(FetchScoredDocsL2(listing, CalculateSafeFetchK),
                    query, cfg, winner)

\* ------------------------------------------------------------------ state
VARIABLES
    input,            \* the query of the session (RetrievalState.input)
    index,            \* what the vector store returns for that query, once asked
    cfg,              \* the configuration flags the chain was built with
    pc,               \* the stage of build_rag_chain the invocation is at
    call,             \* "none", "first" or "second" invocation of the session
    request,          \* selected_option and options the caller passed
    docs, status, refusal_reason, options, selected_option, skip_llm, answer,
    gate,             \* the verdict of gate_scored_docs_l2 in this invocation
    resolver,         \* what _resolve_tag_ambiguity returned in this invocation
    log,              \* the I/O of this invocation, in order
    outcome,          \* the dict _format_final_output returned last
    fn,               \* the function called on its own (Null: the chain runs)
    arg,              \* the tuple of its arguments
    ret,              \* <<>> before the call, <<what it returned>> after
    cache,            \* the _cache attribute of _embed_text_cached and the
                      \* dict objects made for it
    threads           \* the threads inside _embed_text_cached and their locals

vars == <<input, index, cfg, pc, call, request, docs, status, refusal_reason,
          options, selected_option, skip_llm, answer, gate, resolver, log,
          outcome, fn, arg, ret, cache, threads>>

\* The variables of a single function call; the chain leaves them alone.
fn_vars == <<fn, arg, ret, cache, threads>>

chain_vars == <<input, index, cfg, pc, call, request, docs, status,
                refusal_reason, options, selected_option, skip_llm, answer,
                gate, resolver, log, outcome>>

state_vars == <<docs, status, refusal_reason, options, selected_option,
                skip_llm, answer>>

NoOutcome ==
    [status |-> Null, source_documents |-> <<>>, answer |-> Null,
     refusal_reason |-> NoReason, options |-> <<>>,
     selected_option |-> NoSelection]

\* The option ids a caller may answer an option list with.
Selections == 1..(MaxOptions + 1)

Init ==
    /\ input \in Queries
    /\ index = [known |-> FALSE, listing |-> <<>>]
    /\ cfg \in Configs
    /\ pc = "idle"
    /\ call = "none"
    /\ request = [selected_option |-> NoSelection, options |-> <<>>]
    /\ docs = <<>>
    /\ status = Null
    /\ refusal_reason = NoReason
    /\ options = <<>>
    /\ selected_option = NoSelection
    /\ skip_llm = FALSE
    /\ answer = Null
    /\ gate = Null
    /\ resolver = NoResolver
    /\ log = <<>>
    /\ outcome = NoOutcome
    /\ fn = Null
    /\ arg = <<>>
    /\ ret = <<>>
    /\ cache = NoCache
    /\ threads = <<>>

\* chain.invoke(request) and _normalize_state: a fresh state holding the
\* caller's keys.
Begin(kind, selected, opts) ==
    /\ call' = kind
    /\ request' = [selected_option |-> selected, options |-> opts]
    /\ docs' = <<>>
    /\ status' = Null
    /\ refusal_reason' = NoReason
    /\ options' = opts
    /\ selected_option' = selected
    /\ skip_llm' = FALSE
    /\ answer' = Null
    /\ gate' = Null
    /\ resolver' = NoResolver
    /\ log' = <<>>
    /\ pc' = "ood"
    /\ outcome' = NoOutcome
    /\ UNCHANGED <<fn_vars, input, index, cfg>>

\* First call: chain.invoke({"input": question}); the request may also carry
\* a selected_option with no options to select from.
Invoke ==
    /\ pc = "idle"
    /\ call = "none"
    /\ \E n \in {NoSelection} \cup Selections : Begin("first", n, <<>>)

\* Second call (chat_cli.main): the first call came back ambiguous and the
\* caller invokes again with a selected_option and the options it was given.
InvokeSelection ==
    /\ pc = "done"
    /\ call = "first"
    /\ outcome.status = "ambiguous"
    /\ \E n \in Selections : Begin("second", n, outcome.options)

\* The decision with the allow patterns tried before the deny patterns.
OodVerdict_AllowFirst(query) ==
    IF query.blank THEN "empty"
    ELSE IF query.allow THEN "allow"
    ELSE IF query.deny THEN "deny"
    ELSE "default"

\* The decision without the blank-input test.
OodVerdict_NoBlankTest(query) ==
    IF query.deny THEN "deny"
    ELSE IF query.allow THEN "allow"
    ELSE "default"

\* The decision of ood_gate on a query: the first test that applies.
OodVerdict(query) ==
    IF query.blank THEN "empty"
    ELSE IF query.deny THEN "deny"
    ELSE IF query.allow THEN "allow"
    ELSE "default"

\* ood._refuse_state: the keys it sets.
OodRefuseState(reason) ==
    [skip_llm |-> TRUE, status |-> "refuse", docs |-> <<>>, answer |-> "",
     refusal_reason |-> Reason(reason)]

\* ood_gate
OODGate ==
    /\ pc = "ood"
    /\ pc' = "retrieve"
    /\ log' = Append(log, "ood")
    /\ IF ~cfg.ood_enabled \/ skip_llm \/ OodVerdict(input) = "allow"
       THEN UNCHANGED state_vars
       ELSE LET r == OodRefuseState(IF OodVerdict(input) = "empty"
                                   THEN "Empty or invalid query"
                                   ELSE "Out of domain")
            IN  /\ skip_llm' = r.skip_llm
                /\ status' = r.status
                /\ docs' = r.docs
                /\ answer' = r.answer
                /\ refusal_reason' = r.refusal_reason
                /\ UNCHANGED <<options, selected_option>>
    /\ UNCHANGED <<fn_vars, input, index, cfg, call, request, gate, resolver,
                   outcome>>

\* similarity_search_with_score: the index is read-only, so it answers the
\* session's query with the same listing every time it is asked.
Listings == IF index.known THEN {index.listing} ELSE StoreResults

\* The guard that never passes a state through.
SkipsRetrieval_Never == FALSE

\* _guard_retrieval: a state marked skip_llm is passed through.
SkipsRetrieval == skip_llm

\* The resolver gets to the query-aware tie-break with an embedder: the
\* embedding interface is called on this listing.
EmbedsScored(scored, query, c) ==
    /\ GateScoredDocsL2(scored).status = "ambiguous"
    /\ HasEmbedder(c)
    /\ AmbiguityGroups(scored, query, c).step = "tiebreak"
    /\ Len(AmbiguityGroups(scored, query, c).groups) >= 2

Embeds(listing, query, c) ==
    EmbedsScored(FetchScoredDocsL2(listing, CalculateSafeFetchK), query, c)

\* _guard_retrieval and the retrieve-and-gate step.  The vector store and the
\* embedder are remote calls that answer or raise; nothing in _step or in the
\* chain catches what they raise, so the invocation ends with the exception.
GuardRetrieval ==
    /\ pc = "retrieve"
    /\ IF SkipsRetrieval
       THEN /\ pc' = "short"
            /\ UNCHANGED <<state_vars, gate, resolver, log, index>>
       ELSE IF selected_option # NoSelection /\ options # <<>>
       THEN \E r \in {Step(selected_option, options, input, <<>>, cfg, NoDocs)} :
                /\ pc' = "short"
                /\ docs' = r.state.docs
                /\ status' = r.state.status
                /\ options' = r.state.options
                /\ selected_option' = r.state.selected_option
                /\ refusal_reason' = r.state.refusal_reason
                /\ gate' = r.gate
                /\ resolver' = r.resolver
                /\ UNCHANGED <<skip_llm, answer, log, index>>
       ELSE \/ \E listing \in Listings :
                 \E winner \in TiebreakReplies(listing, input, cfg) :
                 \E r \in {Step(selected_option, options, input, listing, cfg, winner)} :
                    /\ pc' = "short"
                    /\ docs' = r.state.docs
                    /\ status' = r.state.status
                    /\ options' = r.state.options
                    /\ selected_option' = r.state.selected_option
                    /\ refusal_reason' = r.state.refusal_reason
                    /\ gate' = r.gate
                    /\ resolver' = r.resolver
                    /\ index' = [known |-> TRUE, listing |-> listing]
                    /\ log' = log \o (IF r.searched THEN <<"search">> ELSE <<>>)
                                  \o (IF r.embedded THEN <<"embed">> ELSE <<>>)
                    /\ UNCHANGED <<skip_llm, answer>>
            \/ /\ pc' = "raised"
               /\ log' = log \o <<"search", "raise">>
               /\ UNCHANGED <<state_vars, gate, resolver, index>>
            \/ \E listing \in Listings :
                    /\ Embeds(listing, input, cfg)
                    /\ pc' = "raised"
                    /\ gate' = "ambiguous"
                    /\ index' = [known |-> TRUE, listing |-> listing]
                    /\ log' = log \o <<"search", "embed", "raise">>
                    /\ UNCHANGED <<state_vars, resolver>>
    /\ UNCHANGED <<fn_vars, input, cfg, call, request, outcome>>

\* The status test that also takes a refused state.
IsStatus_OrRefused(value) == status = value \/ status = "refuse"

\* _is_status(state, value)
IsStatus(value) == status = value

\* _short_circuit_ambiguous
ShortCircuitAmbiguous ==
    /\ pc = "short"
    /\ pc' = "coverage"
    /\ IF ~skip_llm /\ IsStatus("ambiguous")
       THEN /\ docs' = <<>>
            /\ skip_llm' = TRUE
            /\ refusal_reason' = NoReason
            /\ answer' = "ambiguous options"
            /\ UNCHANGED <<status, options, selected_option>>
       ELSE UNCHANGED state_vars
    /\ UNCHANGED <<fn_vars, input, index, cfg, call, request, gate, resolver,
                   log, outcome>>

\* coverage_gate: the entities of the query the cited documents lack.
MissingEntities(query, cited) ==
    {e \in query.entities : e \notin UNION {DocEntities(d) : d \in Range(cited)}}

\* The refusal test with the compare branch taken from one query entity on.
CoverageRefuses_OneEntity(query, cited) ==
    /\ query.compare \/ query.generic
    /\ query.entities # {}
    /\ MissingEntities(query, cited) # {}

CoverageRefuses(query, cited) ==
    \/ query.compare /\ Cardinality(query.entities) >= 2
                     /\ MissingEntities(query, cited) # {}
    \/ query.generic /\ query.entities # {}
                     /\ MissingEntities(query, cited) # {}

\* The coverage refusal that keeps the documents.
CoverageRefuseState_KeepDocs(reason) ==
    [skip_llm |-> TRUE, status |-> "refuse", docs |-> docs,
     answer |-> "refusal text", refusal_reason |-> reason]

\* coverage._refuse: the keys it sets.
CoverageRefuseState(reason) ==
    [skip_llm |-> TRUE, status |-> "refuse", docs |-> <<>>,
     answer |-> "refusal text", refusal_reason |-> reason]

\* _guard_coverage_gate and coverage_gate
GuardCoverageGate ==
    /\ pc = "coverage"
    /\ pc' = "guard"
    /\ IF skip_llm \/ ~IsStatus("ok") \/ ~cfg.coverage_enabled
       THEN UNCHANGED state_vars
       ELSE IF ~input.blank /\ (docs = <<>> \/ ~CoverageRefuses(input, docs))
       THEN UNCHANGED state_vars
       ELSE LET r == CoverageRefuseState(
                       IF input.blank THEN Reason("Empty or invalid query")
                       ELSE [Reason("Missing document coverage")
                               EXCEPT !.missing = MissingEntities(input, docs)])
            IN  /\ skip_llm' = r.skip_llm
                /\ status' = r.status
                /\ docs' = r.docs
                /\ answer' = r.answer
                /\ refusal_reason' = r.refusal_reason
                /\ UNCHANGED <<options, selected_option>>
    /\ UNCHANGED <<fn_vars, input, index, cfg, call, request, gate, resolver,
                   log, outcome>>

\* _guard_refuse_if_no_docs and refuse_if_no_docs
GuardRefuseIfNoDocs ==
    /\ pc = "guard"
    /\ pc' = "answer"
    /\ IF skip_llm \/ ~IsStatus("ok")
       THEN UNCHANGED state_vars
       ELSE IF Len(docs) = 0
       THEN /\ docs' = <<>>
            /\ answer' = "refusal text"
            /\ skip_llm' = TRUE
            /\ refusal_reason' = Reason("No relevant documents found")
            /\ UNCHANGED <<status, options, selected_option>>
       ELSE /\ skip_llm' = FALSE
            /\ refusal_reason' = NoReason
            /\ UNCHANGED <<docs, status, options, selected_option, answer>>
    /\ UNCHANGED <<fn_vars, input, index, cfg, call, request, gate, resolver,
                   log, outcome>>

\* context assignment and _answer_or_refuse: the LLM answers or raises.
AnswerOrRefuse ==
    /\ pc = "answer"
    /\ pc' = "format"
    /\ IF skip_llm
       THEN /\ answer' = IF answer = Null THEN "refusal text" ELSE answer
            /\ UNCHANGED log
       ELSE /\ log' = Append(log, "llm")
            /\ answer' \in {"llm answer", "LLM backend error"}
    /\ UNCHANGED <<fn_vars, input, index, cfg, call, request, docs, status,
                   refusal_reason, options, selected_option, skip_llm, gate,
                   resolver, outcome>>

\* _format_final_output
FormatFinalOutput ==
    /\ pc = "format"
    /\ pc' = "done"
    /\ outcome' = [status |-> status,
                   source_documents |-> IF skip_llm THEN <<>> ELSE docs,
                   answer |-> answer,
                   refusal_reason |-> refusal_reason,
                   options |-> options,
                   selected_option |-> selected_option]
    /\ UNCHANGED <<fn_vars, input, index, cfg, call, request, state_vars, gate,
                   resolver, log>>

Next ==
    \/ Invoke
    \/ InvokeSelection
    \/ OODGate
    \/ GuardRetrieval
    \/ ShortCircuitAmbiguous
    \/ GuardCoverageGate
    \/ GuardRefuseIfNoDocs
    \/ AnswerOrRefuse
    \/ FormatFinalOutput

Spec == Init /\ [][Next]_vars

\* ------------------------------------------------- single function calls
\* The chain at rest while one function is called on its own.
ChainAtRest ==
    /\ input \in {q \in Queries : q.blank}
    /\ index = [known |-> FALSE, listing |-> <<>>]
    /\ cfg = ShippedConfig
    /\ pc = "idle"
    /\ call = "none"
    /\ request = [selected_option |-> NoSelection, options |-> <<>>]
    /\ docs = <<>>
    /\ status = Null
    /\ refusal_reason = NoReason
    /\ options = <<>>
    /\ selected_option = NoSelection
    /\ skip_llm = FALSE
    /\ answer = Null
    /\ gate = Null
    /\ resolver = NoResolver
    /\ log = <<>>
    /\ outcome = NoOutcome

\* No chain invocation, a cold cache and no thread in _embed_text_cached.
ChainIdle ==
    /\ ChainAtRest
    /\ cache = NoCache
    /\ threads = <<>>

\* Documents for the gate: equal and different sources, near and far pages,
\* pages that are not integers, equal and different core tag signatures.
GateDocs ==
    { [id |-> 11, source |-> <<"/x", "a.pdf">>, page |-> 1,
       sig |-> <<"mqtt", "spec", "mqtt">>, entities |-> {"mqtt"}],
      [id |-> 12, source |-> <<"/x", "a.pdf">>, page |-> 3,
       sig |-> <<"kafka", "guide", "kafka">>, entities |-> {"kafka"}],
      [id |-> 13, source |-> <<"/x", "a.pdf">>, page |-> 9,
       sig |-> <<"kafka", "guide", "kafka">>, entities |-> {"kafka"}],
      [id |-> 14, source |-> <<"/x", "b.pdf">>, page |-> 10,
       sig |-> <<"mqtt", "spec", "mqtt">>, entities |-> {"mqtt"}],
      [id |-> 15, source |-> <<"/y", "a.pdf">>, page |-> 2,
       sig |-> <<Null, Null, Null>>, entities |-> {}],
      [id |-> 16, source |-> <<Null, Null>>, page |-> NoPage,
       sig |-> <<"aws_iot", "guide", "iot_core">>, entities |-> {}],
      [id |-> 17, source |-> <<Null, Null>>, page |-> NoPage,
       sig |-> <<"aws_iot", "guide", "iot_core">>, entities |-> {}] }

\* What fetch_scored_docs_l2 can hand to the gate: distinct documents, best
\* first.
GateInputs ==
    UNION { { s \in [1..n -> [doc : GateDocs, score : Dists]] :
                /\ \A i, j \in 1..n : i < j => s[i].doc.id # s[j].doc.id
                /\ \A i \in 1..(n - 1) : s[i].score <= s[i + 1].score }
            : n \in 0..MaxFetch }

GateInit ==
    /\ ChainIdle
    /\ fn = "gate_scored_docs_l2"
    /\ arg \in {<<scored>> : scored \in GateInputs}
    /\ ret = <<>>

\* docs, status = gate_scored_docs_l2(scored, cfg=gate_cfg)
ApplyGate ==
    /\ fn = "gate_scored_docs_l2"
    /\ ret = <<>>
    /\ ret' = <<GateScoredDocsL2(arg[1])>>
    /\ UNCHANGED <<chain_vars, fn, arg, cache, threads>>

GateNext == ApplyGate

GateSpec == GateInit /\ [][GateNext]_vars

\* In-domain queries for the coverage gate: every verdict of the compare and
\* generic markers with every set of query entities.
CoverageQueries ==
    { [text |-> "q", blank |-> FALSE, deny |-> FALSE, allow |-> TRUE,
       compare |-> c, generic |-> g, generic_query |-> FALSE,
       facet |-> FALSE, entities |-> es] :
        c \in BOOLEAN, g \in BOOLEAN, es \in SUBSET {"mqtt", "kafka"} }

\* The documents of an ok state: one to final_k distinct documents.
OkDocs ==
    UNION { { ds \in [1..n -> Corpus] :
                \A i, j \in 1..n : i < j => ds[i].id # ds[j].id }
            : n \in 1..FinalK }

\* The state _guard_coverage_gate receives after a retrieval that ended ok.
CoverageInit ==
    /\ input \in CoverageQueries
    /\ index = [known |-> FALSE, listing |-> <<>>]
    /\ cfg = ShippedConfig
    /\ pc = "coverage"
    /\ call = "first"
    /\ request = [selected_option |-> NoSelection, options |-> <<>>]
    /\ docs \in OkDocs
    /\ status = "ok"
    /\ refusal_reason = NoReason
    /\ options = <<>>
    /\ selected_option = NoSelection
    /\ skip_llm = FALSE
    /\ answer = Null
    /\ gate = "ok"
    /\ resolver = NoResolver
    /\ log = <<"ood", "search">>
    /\ outcome = NoOutcome
    /\ fn = "coverage_gate"
    /\ arg = <<>>
    /\ ret = <<>>
    /\ cache = NoCache
    /\ threads = <<>>

CoverageNext == GuardCoverageGate

CoverageSpec == CoverageInit /\ [][CoverageNext]_vars

\* Documents for the augmenter: two chunks of one page with different
\* entities, and other pages with a third entity or none.
AugmentDocs ==
    { [id |-> 21, source |-> <<"/x", "a.pdf">>, page |-> 1,
       sig |-> <<"mqtt", "spec", "mqtt">>, entities |-> {"mqtt"}],
      [id |-> 22, source |-> <<"/x", "a.pdf">>, page |-> 1,
       sig |-> <<"mqtt", "spec", "mqtt">>, entities |-> {"kafka"}],
      [id |-> 23, source |-> <<"/x", "b.pdf">>, page |-> 10,
       sig |-> <<"http", "guide", "http">>, entities |-> {"http"}],
      [id |-> 24, source |-> <<"/x", "b.pdf">>, page |-> 11,
       sig |-> <<"http", "guide", "http">>, entities |-> {}] }

\* Lists of distinct documents of the augmenter's corpus.
AugmentLists ==
    UNION { { ds \in [1..n -> AugmentDocs] :
                \A i, j \in 1..n : i < j => ds[i].id # ds[j].id }
            : n \in 0..MaxFetch }

\* A list of documents as a scored list, best first.
Scored(ds) == [i \in 1..Len(ds) |-> [doc |-> ds[i], score |-> 0]]

AugmentInit ==
    /\ ChainIdle
    /\ fn = "_augment_docs_to_cover_entities"
    /\ arg \in { <<chosen_docs, Scored(candidates), query_entities, final_k>> :
                   chosen_docs \in AugmentLists, candidates \in AugmentLists,
                   query_entities \in SUBSET {"mqtt", "kafka", "http"},
                   final_k \in 1..FinalK }
    /\ ret = <<>>

\* _augment_docs_to_cover_entities(chosen_docs=, candidates=,
\* query_entities=, final_k=)
ApplyAugment ==
    /\ fn = "_augment_docs_to_cover_entities"
    /\ ret = <<>>
    /\ ret' = <<AugmentDocsToCoverEntities(arg[1], arg[2], arg[3], arg[4])>>
    /\ UNCHANGED <<chain_vars, fn, arg, cache, threads>>

AugmentNext == ApplyAugment

AugmentSpec == AugmentInit /\ [][AugmentNext]_vars

\* Documents for the resolver: a bucket whose chunk names one entity, a
\* bucket whose chunks name two (tests/test_entity_aware_ambiguity.py), and
\* an untagged chunk of the first file, which makes a bucket of its own.
ResolveDocs ==
    { [id |-> 31, source |-> <<"", "a.pdf">>, page |-> NoPage,
       sig |-> <<"aws_iot", "pdf", "iot_core">>, entities |-> {"aws_iot"}],
      [id |-> 32, source |-> <<"", "a.pdf">>, page |-> NoPage,
       sig |-> <<Null, Null, Null>>, entities |-> {"aws_iot"}],
      [id |-> 33, source |-> <<"", "b.pdf">>, page |-> NoPage,
       sig |-> <<"aws_iot", "pdf", "iot_jobs">>,
       entities |-> {"aws_iot", "aws_iot_jobs"}],
      [id |-> 34, source |-> <<"", "b.pdf">>, page |-> NoPage,
       sig |-> <<"aws_iot", "pdf", "iot_jobs">>,
       entities |-> {"aws_iot_jobs"}] }

\* scored: distinct documents, best first.
ResolveInputs ==
    UNION { { s \in [1..n -> [doc : ResolveDocs, score : Dists]] :
                /\ \A i, j \in 1..n : i < j => s[i].doc.id # s[j].doc.id
                /\ \A i \in 1..(n - 1) : s[i].score <= s[i + 1].score }
            : n \in 0..MaxFetch }

\* Queries for the resolver: plain, overview (generic, no facet) and generic
\* with a facet, with every set of the documents' entities and one with an
\* entity that no document names.
ResolveQueries ==
    { [text |-> "q", blank |-> FALSE, deny |-> FALSE, allow |-> TRUE,
       compare |-> FALSE, generic |-> FALSE, generic_query |-> g[1],
       facet |-> g[2], entities |-> es] :
        g \in {<<FALSE, FALSE>>, <<TRUE, FALSE>>, <<TRUE, TRUE>>},
        es \in (SUBSET {"aws_iot", "aws_iot_jobs"}) \cup {{"aws_iot", "mqtt"}} }

\* AmbiguityConfig of the test: embed_docs=None and both tie-breakers off,
\* with entity resolve on or off, full coverage required or not.
ResolveConfigs ==
    { [ShippedConfig EXCEPT !.enable_sig_tiebreak = FALSE,
                            !.enable_anchor_tiebreak = FALSE,
                            !.enable_entity_resolve = e,
                            !.require_full_entity_coverage = f] :
        e \in BOOLEAN, f \in BOOLEAN }

\* The calls of _resolve_tag_ambiguity on (scored, q) with the test's
\* configurations: without an embedder the query-aware tie-break returns None.
ResolveArgsNoEmbedder(scored, q) ==
    { <<scored, q, FinalK, c, NoDocs>> : c \in ResolveConfigs }

\* The calls with the shipped configuration and its embedder, one for every
\* result the query-aware tie-break can return on the call's buckets.
ResolveArgsEmbedder(scored, q) ==
    { <<scored, q, FinalK, ShippedConfig, winner>> :
        winner \in TiebreakRepliesAt(
                      AmbiguityGroups(scored, q, ShippedConfig),
                      ShippedConfig) }

ResolveArgs(scored, q) ==
    ResolveArgsNoEmbedder(scored, q) \cup ResolveArgsEmbedder(scored, q)

ResolveInit ==
    /\ ChainIdle
    /\ fn = "_resolve_tag_ambiguity"
    /\ \E scored \in ResolveInputs, q \in ResolveQueries :
          arg \in ResolveArgs(scored, q)
    /\ ret = <<>>

\* options, auto_resolved, docs = _resolve_tag_ambiguity(scored, query=,
\* final_k=, cfg=)
ApplyResolve ==
    /\ fn = "_resolve_tag_ambiguity"
    /\ ret = <<>>
    /\ ret' = <<ResolveTagAmbiguity(arg[1], arg[2], arg[3], arg[4], arg[5])>>
    /\ UNCHANGED <<chain_vars, fn, arg, cache, threads>>

ResolveNext == ApplyResolve

ResolveSpec == ResolveInit /\ [][ResolveNext]_vars

\* The lists _prepare_retrieval_options hands to _deduplicate_options: one
\* option per bucket, numbered from 1 in bucket order, best bucket first.
\* Documents 1 and 4 of the corpus have the same (filename, page).
RawOptionLists ==
    UNION { { [i \in 1..n |->
                 [option_id |-> i, docs |-> <<s[i].doc>>,
                  sources |-> CollectSources(<<s[i].doc>>),
                  best_l2 |-> s[i].score]] :
              s \in { t \in [1..n -> [doc : Corpus, score : Dists]] :
                        /\ \A i, j \in 1..n : i < j => t[i].doc.id # t[j].doc.id
                        /\ \A i \in 1..(n - 1) : t[i].score <= t[i + 1].score } }
            : n \in 0..MaxFetch }

OptionsInit ==
    /\ ChainIdle
    /\ fn = "_deduplicate_options"
    /\ arg \in {<<opts>> : opts \in RawOptionLists}
    /\ ret = <<>>

\* return _deduplicate_options(options)
ApplyDeduplicate ==
    /\ fn = "_deduplicate_options"
    /\ ret = <<>>
    /\ ret' = <<DeduplicateOptions(arg[1])>>
    /\ UNCHANGED <<chain_vars, fn, arg, cache, threads>>

OptionsNext == ApplyDeduplicate

OptionsSpec == OptionsInit /\ [][OptionsNext]_vars

\* ---------------------------------------------------- a session of queries
\* One process answering queries one after the other with the signature
\* tie-break on (the anchor tie-break, which does not use the cache, off).
SessionConfig == [ShippedConfig EXCEPT !.enable_anchor_tiebreak = FALSE]

\* Two in-domain queries that the resolver cannot settle by entities alone.
SessionQueries ==
    {q \in Queries : q.text \in {"iot bluetooth pairing", "mqtt vs kafka"}}

SessionSigTexts ==
    {RenderSignatureText(SafeTagSignature(d, SessionConfig.strict_sig)) :
       d \in Corpus}

\* The query as a text handed to the embedder.
QueryText(q) == <<<<"input", q.text>>>>

\* embed_docs: a function of the text.
Embedders == [{QueryText(q) : q \in SessionQueries} \cup SessionSigTexts -> Vectors]

\* What the store holds for one query: two documents or more at the same
\* distance, so that the gate comes back ambiguous and no group leads.
SessionListings ==
    UNION { { s \in [1..n -> [doc : Corpus, score : {0}]] :
                \A i, j \in 1..n : i < j => s[i].doc.id < s[j].doc.id }
            : n \in 2..MaxFetch }

\* How far the resolver gets on scored, "none" when it is not called.
SessionAt(scored, query, c) ==
    IF GateScoredDocsL2(scored).status = "ambiguous"
    THEN AmbiguityGroups(scored, query, c)
    ELSE [step |-> "none", groups |-> <<>>]

\* group_sigs of _tiebreak_signature_embedding, rendered.
GroupSigTexts(groups, c) ==
    [i \in 1..Len(groups) |->
       RenderSignatureText(SafeTagSignature(groups[i][1].doc, c.strict_sig))]

\* The signature vectors of the invocation and the cache after it.
SessionEmbedded(at, c, ch, embed_docs) ==
    IF at.step = "tiebreak" /\ c.enable_sig_tiebreak /\ Len(at.groups) >= 2
    THEN EmbedSignatures(GroupSigTexts(at.groups, c), ch, embed_docs)
    ELSE [vectors |-> <<>>, cache |-> ch]

SessionWinner(e, at, query, c, embed_docs) ==
    IF e.vectors = <<>> THEN NoDocs
    ELSE TiebreakGroupsByQueryAware(at.groups,
           SimsOf(embed_docs[QueryText(query)], e.vectors),
           [i \in 1..Len(at.groups) |-> 0], c)

SessionStepEmbedded(e, at, scored, query, c, embed_docs) ==
    [state |-> StepScored(scored, query, c,
                          SessionWinner(e, at, query, c, embed_docs)).state,
     cache |-> e.cache]

SessionStepAt(at, scored, query, c, ch, embed_docs) ==
    SessionStepEmbedded(SessionEmbedded(at, c, ch, embed_docs), at, scored,
                        query, c, embed_docs)

\* _step of one invocation run with the cache ch: the state it returns and
\* the cache it leaves.
SessionStep(scored, query, c, ch, embed_docs) ==
    SessionStepAt(SessionAt(scored, query, c), scored, query, c, ch,
                  embed_docs)

\* arg = <<store, embed_docs>>; ret[text]: the first and the latest state
\* _step returned for the query.
SessionInit ==
    /\ ChainIdle
    /\ fn = "session"
    /\ arg \in { <<store, embed_docs>> :
                   store \in [{q.text : q \in SessionQueries} -> SessionListings],
                   embed_docs \in Embedders }
    /\ ret = [t \in {q.text : q \in SessionQueries} |-> <<>>]

SessionInvoke ==
    /\ fn = "session"
    /\ \E q \in SessionQueries :
       \E r \in {SessionStep(FetchScoredDocsL2(arg[1][q.text], CalculateSafeFetchK),
                             q, SessionConfig, cache, arg[2])} :
          /\ ret' = [ret EXCEPT ![q.text] =
                       IF @ = <<>> THEN <<r.state>> ELSE <<@[1], r.state>>]
          /\ cache' = r.cache
    /\ UNCHANGED <<chain_vars, fn, arg, threads>>

SessionNext == SessionInvoke

SessionSpec == SessionInit /\ [][SessionNext]_vars

\* ------------------------------------------- concurrent calls of the cache
\* Two queries of one process run _embed_text_cached at the same time
\* (chain.batch, or a server thread per request).
Threads == {"t1", "t2"}

\* embed_docs on the signature texts.
CacheEmbedders == [SessionSigTexts -> Vectors]

\* The cache before the two calls: the attribute missing, or the dict an
\* earlier call left.
EarlierCaches(embed_docs) ==
    {NoCache} \cup {Stored(NoCache, t, embed_docs[t]) : t \in SessionSigTexts}

\* A thread at the def line: no local cache (dict 0), no vector.
Entering(text) == [pc |-> "getattr", text |-> text, dict |-> 0, vector |-> <<>>]

\* arg = <<embed_docs, the text of each thread's call>>
CacheInit ==
    /\ ChainAtRest
    /\ fn = "_embed_text_cached"
    /\ arg \in { <<embed_docs, texts>> :
                   embed_docs \in CacheEmbedders,
                   texts \in [Threads -> SessionSigTexts] }
    /\ ret = <<>>
    /\ cache \in EarlierCaches(arg[1])
    /\ threads = [t \in Threads |-> Entering(arg[2][t])]

\* cache = getattr(_embed_text_cached, "_cache", {}): the attribute's dict,
\* or a new dict that nothing else refers to.
GetCache(t) ==
    /\ fn = "_embed_text_cached"
    /\ threads[t].pc = "getattr"
    /\ IF cache.attr = 0
       THEN /\ cache' = [cache EXCEPT !.dicts = Append(@, {})]
            /\ threads' = [threads EXCEPT ![t].pc = "test",
                                          ![t].dict = Len(cache.dicts) + 1]
       ELSE /\ cache' = cache
            /\ threads' = [threads EXCEPT ![t].pc = "test",
                                          ![t].dict = cache.attr]
    /\ UNCHANGED <<chain_vars, fn, arg, ret>>

\* if key in cache: return cache[key]
TestKey(t) ==
    /\ fn = "_embed_text_cached"
    /\ threads[t].pc = "test"
    /\ IF HasKey(cache.dicts[threads[t].dict], threads[t].text)
       THEN threads' = [threads EXCEPT
                          ![t].pc = "done",
                          ![t].vector = <<Lookup(cache.dicts[threads[t].dict],
                                                 threads[t].text)>>]
       ELSE threads' = [threads EXCEPT ![t].pc = "embed"]
    /\ UNCHANGED <<chain_vars, fn, arg, ret, cache>>

\* vector = embed_docs([text])[0]
EmbedText(t) ==
    /\ fn = "_embed_text_cached"
    /\ threads[t].pc = "embed"
    /\ threads' = [threads EXCEPT ![t].pc = "store",
                                  ![t].vector = <<arg[1][threads[t].text]>>]
    /\ UNCHANGED <<chain_vars, fn, arg, ret, cache>>

\* cache[key] = vector
StoreKey(t) ==
    /\ fn = "_embed_text_cached"
    /\ threads[t].pc = "store"
    /\ cache' = [cache EXCEPT !.dicts[threads[t].dict] =
                                Put(@, threads[t].text, threads[t].vector[1])]
    /\ threads' = [threads EXCEPT ![t].pc = "setattr"]
    /\ UNCHANGED <<chain_vars, fn, arg, ret>>

\* setattr(_embed_text_cached, "_cache", cache); return vector
SetCache(t) ==
    /\ fn = "_embed_text_cached"
    /\ threads[t].pc = "setattr"
    /\ cache' = [cache EXCEPT !.attr = threads[t].dict]
    /\ threads' = [threads EXCEPT ![t].pc = "done"]
    /\ UNCHANGED <<chain_vars, fn, arg, ret>>

CacheNext ==
    \E t \in Threads :
        \/ GetCache(t)
        \/ TestKey(t)
        \/ EmbedText(t)
        \/ StoreKey(t)
        \/ SetCache(t)

CacheSpec == CacheInit /\ [][CacheNext]_vars

\* ------------------------------------------------------- the tag clusterer
\* Documents for the clusterer: two files with one signature, and untagged
\* chunks of two files, one file name in two directories.
ClusterDocs ==
    { [id |-> 41, source |-> <<"/x", "a.pdf">>, page |-> 1,
       sig |-> <<"mqtt", "spec", "mqtt">>, entities |-> {}],
      [id |-> 42, source |-> <<"/x", "b.pdf">>, page |-> 1,
       sig |-> <<"mqtt", "spec", "mqtt">>, entities |-> {}],
      [id |-> 43, source |-> <<"/x", "a.pdf">>, page |-> 2,
       sig |-> <<Null, Null, Null>>, entities |-> {}],
      [id |-> 44, source |-> <<"/y", "a.pdf">>, page |-> 1,
       sig |-> <<Null, Null, Null>>, entities |-> {}],
      [id |-> 45, source |-> <<"/x", "b.pdf">>, page |-> 2,
       sig |-> <<Null, Null, Null>>, entities |-> {}] }

\* scored as fetch_scored_docs_l2 returns it: distinct documents, best first.
ClusterInputs ==
    UNION { { s \in [1..n -> [doc : ClusterDocs, score : Dists]] :
                /\ \A i, j \in 1..n : i < j => s[i].doc.id # s[j].doc.id
                /\ \A i \in 1..(n - 1) : s[i].score <= s[i + 1].score }
            : n \in 1..MaxFetch }

ClusterInit ==
    /\ ChainIdle
    /\ fn = "_group_scored_by_tag_signature"
    /\ arg \in { <<scored, ShippedConfig.strict_sig>> : scored \in ClusterInputs }
    /\ ret = <<>>

\* groups = _group_scored_by_tag_signature(scored, strict=cfg.strict_sig)
ApplyGroup ==
    /\ fn = "_group_scored_by_tag_signature"
    /\ ret = <<>>
    /\ ret' = <<GroupScoredByTagSignature(arg[1], arg[2])>>
    /\ UNCHANGED <<chain_vars, fn, arg, cache, threads>>

ClusterNext == ApplyGroup

ClusterSpec == ClusterInit /\ [][ClusterNext]_vars

\* ----------------------------------------------------- the option presenter
\* Candidates for the presenter: the augmenter's documents, two chunks of
\* one page in one bucket and two pages of one file in the other.
PresentInputs ==
    UNION { { s \in [1..n -> [doc : AugmentDocs, score : Dists]] :
                /\ \A i, j \in 1..n : i < j => s[i].doc.id # s[j].doc.id
                /\ \A i \in 1..(n - 1) : s[i].score <= s[i + 1].score }
            : n \in 1..MaxFetch }

\* arg = <<scored, effective_k>>
PresentInit ==
    /\ ChainIdle
    /\ fn = "_prepare_retrieval_options"
    /\ arg \in { <<scored, effective_k>> :
                   scored \in PresentInputs, effective_k \in 1..FinalK }
    /\ ret = <<>>

\* _prepare_retrieval_options(groups=groups, cfg=cfg, effective_k=effective_k)
\* on the groups of scored
ApplyPrepare ==
    /\ fn = "_prepare_retrieval_options"
    /\ ret = <<>>
    /\ ret' = <<PrepareRetrievalOptions(
                  GroupScoredByTagSignature(arg[1], ShippedConfig.strict_sig),
                  ShippedConfig, arg[2])>>
    /\ UNCHANGED <<chain_vars, fn, arg, cache, threads>>

PresentNext == ApplyPrepare

PresentSpec == PresentInit /\ [][PresentNext]_vars

\* ------------------------------------------------ the query-aware tie-break
\* An in-domain query that names no entity and matches no generic pattern.
TiebreakQuery == CHOOSE q \in Queries : q.text = "iot bluetooth pairing"

\* Either tie-breaker on or off.
TiebreakConfigs ==
    { [ShippedConfig EXCEPT !.enable_sig_tiebreak = s,
                            !.enable_anchor_tiebreak = a] :
        s \in BOOLEAN, a \in BOOLEAN }

\* Candidates at one distance, so that no group leads, with the cosine
\* similarities the embedder's vectors give for the signature text and the
\* anchor content of each bucket.
TiebreakArgs ==
    UNION { { <<scored, sig_sims, anchor_sims, c>> :
                sig_sims \in [1..Len(GroupScoredByTagSignature(scored, FALSE)) -> Sims],
                anchor_sims \in [1..Len(GroupScoredByTagSignature(scored, FALSE)) -> Sims],
                c \in TiebreakConfigs } :
            scored \in SessionListings }

TiebreakInit ==
    /\ ChainIdle
    /\ fn = "_tiebreak_groups_by_query_aware"
    /\ arg \in TiebreakArgs
    /\ ret = <<>>

\* The resolver from the tie-break on: winner_docs and what is returned.
ResolvedByWinner(at, scored, c, winner) ==
    [winner |-> winner,
     result |-> ResolveAt(at, scored, TiebreakQuery, Max(1, FinalK), c, winner)]

ResolvedBySims(at, scored, sig_sims, anchor_sims, c) ==
    ResolvedByWinner(at, scored, c,
        IF at.step = "tiebreak"
        THEN TiebreakGroupsByQueryAware(at.groups, sig_sims, anchor_sims, c)
        ELSE NoDocs)

\* _resolve_tag_ambiguity on candidates whose embeddings give these
\* similarities.
ApplyTiebreak ==
    /\ fn = "_tiebreak_groups_by_query_aware"
    /\ ret = <<>>
    /\ ret' = <<ResolvedBySims(AmbiguityGroups(arg[1], TiebreakQuery, arg[4]),
                               arg[1], arg[2], arg[3], arg[4])>>
    /\ UNCHANGED <<chain_vars, fn, arg, cache, threads>>

TiebreakNext == ApplyTiebreak

TiebreakSpec == TiebreakInit /\ [][TiebreakNext]_vars

\* ------------------------------------------------------------- properties
Terminal == pc = "done"

\* The option of the request whose option_id is the request's selection.
Selected == SelectSeq(request.options,
                      LAMBDA o : o.option_id = request.selected_option)

Count(s, x) == Cardinality({i \in 1..Len(s) : s[i] = x})

\* The entities the documents ds mention.
EntitiesIn(ds) == UNION {ds[i].entities : i \in 1..Len(ds)}

\* C1: every terminal state whose status is refuse or ambiguous has skip_llm
\* true, and the LLM was not invoked on the way to it, whichever stage
\* produced the refusal.
C1_SkipLlmOnRefuseOrAmbiguous ==
    (Terminal /\ status \in {"refuse", "ambiguous"})
        => (skip_llm /\ "llm" \notin Range(log))

\* C2: an outcome with status ok carries at least one and at most final_k
\* documents and no options, on a first call and on a second call alike.
C2_OkOutcome ==
    (Terminal /\ status = "ok")
        => /\ Len(docs) \in 1..FinalK
           /\ outcome.source_documents = docs
           /\ options = <<>>
           /\ outcome.options = <<>>

\* An ok outcome of a search that returned more than final_k documents
\* within max_l2.
C2_Witness ==
    /\ Terminal
    /\ status = "ok"
    /\ Len(docs) = FinalK
    /\ Len(index.listing) > FinalK
    /\ \A i \in 1..Len(index.listing) : index.listing[i].score <= MaxL2

\* C3: an outcome with status refuse carries no documents and a non-empty
\* refusal reason, whichever stage refused.
C3_RefuseOutcome ==
    (Terminal /\ status = "refuse")
        => /\ docs = <<>>
           /\ outcome.source_documents = <<>>
           /\ refusal_reason.kind \notin {Null, ""}
           /\ outcome.refusal_reason = refusal_reason

\* A refusal by the coverage gate, which ran on a state that had documents.
C3_Witness ==
    /\ Terminal
    /\ status = "refuse"
    /\ gate = "ok"
    /\ refusal_reason.kind = "Missing document coverage"

\* C4: an outcome with status ambiguous carries at least two options, no two
\* of them with the same sorted set of (filename, page) sources, and no
\* documents.
C4_AmbiguousOutcome ==
    (Terminal /\ status = "ambiguous")
        => /\ Len(options) >= 2
           /\ outcome.options = options
           /\ \A i, j \in 1..Len(options) :
                  i # j => OptionSignature(options[i]) # OptionSignature(options[j])
           /\ docs = <<>>
           /\ outcome.source_documents = <<>>

\* An ambiguous outcome with a list of options.
C4_Witness ==
    /\ Terminal
    /\ status = "ambiguous"
    /\ Len(options) = MaxOptions
    /\ OptionSignature(options[1]) # OptionSignature(options[2])

\* C5, as stated: a second call that selects an option of the returned list
\* ends with status ok and exactly that option's documents.
C5_RoundTrip ==
    (Terminal /\ call = "second" /\ Selected # <<>>)
        => /\ status = "ok"
           /\ docs = Selected[1].docs

\* C5, amended: a second call that selects an option of the returned list
\* ends with status ok and exactly that option's documents, unless the
\* coverage gate finds a query entity missing from them (compare query with
\* two or more entities, or generic query with at least one), and then it
\* ends refused for missing coverage with no documents.
C5_RoundTripUnlessCoverage ==
    (Terminal /\ call = "second" /\ Selected # <<>>)
        => LET chosen == Selected[1].docs
               missing == input.entities \ EntitiesIn(chosen)
               uncovered ==
                   /\ cfg.coverage_enabled
                   /\ missing # {}
                   /\ \/ input.compare /\ Cardinality(input.entities) >= 2
                      \/ input.generic
           IN  IF uncovered
               THEN /\ status = "refuse"
                    /\ refusal_reason.kind = "Missing document coverage"
                    /\ refusal_reason.missing = missing
                    /\ docs = <<>>
               ELSE /\ status = "ok"
                    /\ docs = chosen
                    /\ outcome.source_documents = chosen

\* A second call that selected the second option and got its documents.
C5_Witness ==
    /\ Terminal
    /\ call = "second"
    /\ request.selected_option = 2
    /\ Selected # <<>>
    /\ status = "ok"
    /\ docs = Selected[1].docs

\* C6, as stated: a request with a selection n and an options list without
\* option_id n, the empty list included, is refused as an invalid selection
\* with no documents.
C6_InvalidSelection ==
    (Terminal /\ request.selected_option # NoSelection /\ Selected = <<>>)
        => /\ status = "refuse"
           /\ refusal_reason = [Reason("Invalid selection")
                                  EXCEPT !.selection = request.selected_option]
           /\ docs = <<>>

\* C6, amended: a request that passes the OOD gate with a selection n and a
\* non-empty options list without option_id n is refused as an invalid
\* selection with no documents.
C6_InvalidSelectionNonEmptyList ==
    (/\ Terminal
     /\ request.selected_option # NoSelection
     /\ request.options # <<>>
     /\ Selected = <<>>
     /\ ~input.blank /\ ~input.deny /\ input.allow)
        => /\ status = "refuse"
           /\ refusal_reason = [Reason("Invalid selection")
                                  EXCEPT !.selection = request.selected_option]
           /\ docs = <<>>
           /\ outcome.source_documents = <<>>

\* A second call refused for a selection outside the returned list.
C6_Witness ==
    /\ Terminal
    /\ call = "second"
    /\ request.options # <<>>
    /\ request.selected_option = Len(request.options) + 1
    /\ refusal_reason.kind = "Invalid selection"

\* C7: with the OOD gate enabled and a non-blank input, the gate refuses with
\* reason Out of domain and skip_llm true when a deny pattern matches (an
\* allow pattern matching too or not) or when no allow pattern matches, and
\* leaves the state unchanged otherwise; the refusal is the outcome.
C7_OodGate ==
    /\ [][(pc = "ood" /\ cfg.ood_enabled /\ ~input.blank)
            => IF input.deny \/ ~input.allow
               THEN /\ status' = "refuse"
                    /\ refusal_reason' = Reason("Out of domain")
                    /\ skip_llm'
               ELSE UNCHANGED state_vars]_vars
    /\ [](pc = "done" /\ cfg.ood_enabled /\ ~input.blank
            /\ (input.deny \/ ~input.allow)
            => /\ outcome.status = "refuse"
               /\ outcome.refusal_reason = Reason("Out of domain")
               /\ skip_llm)

\* The gate has refused an input that matches a deny and an allow pattern.
C7_Witness ==
    /\ pc = "retrieve"
    /\ cfg.ood_enabled
    /\ input.deny /\ input.allow
    /\ status = "refuse"
    /\ refusal_reason = Reason("Out of domain")

\* C8, as stated: on a blank input the OOD gate sets status refuse, skip_llm
\* true and the reason Out of domain.
C8_BlankOutOfDomain ==
    (pc \notin {"idle", "ood"} /\ cfg.ood_enabled /\ input.blank)
        => /\ status = "refuse"
           /\ skip_llm
           /\ refusal_reason = Reason("Out of domain")

\* C8, amended: on a blank input the OOD gate sets status refuse, skip_llm
\* true and the reason Empty or invalid query.
C8_BlankEmptyOrInvalid ==
    (pc \notin {"idle", "ood"} /\ cfg.ood_enabled /\ input.blank)
        => /\ status = "refuse"
           /\ skip_llm
           /\ refusal_reason = Reason("Empty or invalid query")

\* The gate has run on a blank input.
C8_Witness ==
    /\ pc = "retrieve"
    /\ cfg.ood_enabled
    /\ input.blank
    /\ log = <<"ood">>

\* C9: an invocation searches the vector store at most once, only after the
\* OOD gate has run and passed the input, and never when the request selects
\* among options it carries.
C9_SearchOnce ==
    /\ Count(log, "search") <= 1
    /\ "search" \in Range(log)
         => /\ log[1] = "ood"
            /\ cfg.ood_enabled => (~input.blank /\ ~input.deny /\ input.allow)
            /\ ~(request.selected_option # NoSelection /\ request.options # <<>>)
    /\ call = "second" => "search" \notin Range(log)

\* An invocation refused by the OOD gate has ended.
C9_Witness ==
    /\ Terminal
    /\ cfg.ood_enabled
    /\ input.deny
    /\ refusal_reason = Reason("Out of domain")
    /\ "search" \notin Range(log)

\* C10: when the best distance exceeds max_l2 but not soft_max_l2 the gate
\* does not refuse; it refuses only when the best distance exceeds both, or
\* when there are no candidates.
C10_SoftThreshold ==
    (/\ gate # Null
     /\ index.listing # <<>>
     /\ index.listing[1].score > MaxL2
     /\ index.listing[1].score <= SoftMaxL2)
        => gate # "refuse"

\* ---------------------------------------------------- properties: the gate
GateCalled == fn = "gate_scored_docs_l2" /\ ret # <<>>

\* The candidates of the gate's argument within max_l2, in their order.
Kept == SelectSeq(arg[1], LAMBDA sd : sd.score <= MaxL2)

\* The two best kept candidates exist and reach the gap gate.
TwoBestKept == GateCalled /\ MinGap # NoGap /\ FinalK >= 2 /\ Len(Kept) >= 2

SameSourceClosePages(a, b) ==
    /\ a.source = b.source
    /\ a.page # NoPage
    /\ b.page # NoPage
    /\ Abs(a.page - b.page) <= 2

\* C11: when the two best kept candidates are closer than min_gap but carry
\* the same core tag signature with no null part, the gate returns ok,
\* whatever their source and page.
C11_SameSignatureExemption ==
    (/\ TwoBestKept
     /\ Kept[2].score - Kept[1].score < MinGap
     /\ Kept[1].doc.sig = Kept[2].doc.sig
     /\ \A i \in 1..Len(Kept[1].doc.sig) : Kept[1].doc.sig[i] # Null)
        => ret[1].status = "ok"

\* C12: when the two best kept candidates carry different core tag
\* signatures, the gate returns ok iff their gap is at least min_gap or they
\* have the same source and integer pages at most 2 apart, and returns
\* ambiguous with no documents otherwise.
C12_GapGateDifferentSignatures ==
    (TwoBestKept /\ Kept[1].doc.sig # Kept[2].doc.sig)
        => IF \/ Kept[2].score - Kept[1].score >= MinGap
              \/ SameSourceClosePages(Kept[1].doc, Kept[2].doc)
           THEN ret[1].status = "ok"
           ELSE ret[1] = [docs |-> <<>>, status |-> "ambiguous"]

\* The gate has passed two candidates of different signatures closer than
\* min_gap, from the same file and pages 1 and 3.
C12_Witness ==
    /\ TwoBestKept
    /\ Kept[1].doc.sig # Kept[2].doc.sig
    /\ Kept[2].score - Kept[1].score < MinGap
    /\ SameSourceClosePages(Kept[1].doc, Kept[2].doc)
    /\ ret[1].status = "ok"

\* C13: the gate keeps exactly the candidates within the threshold, refuses
\* when fewer than min_keep are kept, and on ok returns the first final_k kept
\* candidates in ascending-distance order.
C13_DensityAndTrim ==
    GateCalled
        => /\ Len(Kept) < MinKeep
                => ret[1] = [docs |-> <<>>, status |-> "refuse"]
           /\ ret[1].status = "ok"
                => /\ ret[1].docs = [i \in 1..Min(FinalK, Len(Kept)) |-> Kept[i].doc]
                   /\ \A i \in 1..(Min(FinalK, Len(Kept)) - 1) :
                          Kept[i].score <= Kept[i + 1].score
                   /\ Len(ret[1].docs) <= FinalK
           /\ ret[1].status # "ok" => ret[1].docs = <<>>

\* The gate has returned ok and left out a candidate above the threshold.
C13_Witness ==
    /\ GateCalled
    /\ ret[1].status = "ok"
    /\ Len(Kept) < Len(arg[1])
    /\ Len(ret[1].docs) = Len(Kept)

\* ------------------------------------------- properties: the coverage gate
\* C14: on an ok state with documents, the enabled coverage gate refuses,
\* with a reason listing exactly the query entities the documents lack, iff
\* some entity is lacking and the query is a compare query with two or more
\* entities or a generic query with at least one; otherwise it leaves the
\* state unchanged.
C14_CoverageGate ==
    [][(pc = "coverage" /\ cfg.coverage_enabled /\ ~skip_llm
          /\ status = "ok" /\ docs # <<>>)
         => IF /\ input.entities \ EntitiesIn(docs) # {}
               /\ \/ input.compare /\ Cardinality(input.entities) >= 2
                  \/ input.generic /\ Cardinality(input.entities) >= 1
            THEN /\ status' = "refuse"
                 /\ docs' = <<>>
                 /\ refusal_reason'.kind = "Missing document coverage"
                 /\ refusal_reason'.missing = input.entities \ EntitiesIn(docs)
            ELSE UNCHANGED state_vars]_vars

\* The gate has refused a compare query for the one entity its documents
\* lack.
C14_Witness ==
    /\ fn = "coverage_gate"
    /\ pc = "guard"
    /\ input.compare
    /\ Cardinality(input.entities) = 2
    /\ status = "refuse"
    /\ Cardinality(refusal_reason.missing) = 1

\* --------------------------------------------- properties: the augmenter
AugmentCalled == fn = "_augment_docs_to_cover_entities" /\ ret # <<>>

\* How many of the query entities es the documents ds cover.
CoverageCount(es, ds) == Cardinality(es \cap EntitiesIn(ds))

\* C15: for final_k >= 1 the documents the augmenter returns cover at least
\* as many query entities as the first final_k chosen documents covered on
\* entry.
C15_AugmenterNeverReducesCoverage ==
    (AugmentCalled /\ arg[4] >= 1)
        => CoverageCount(arg[3], ret[1])
             >= CoverageCount(arg[3], Take(arg[1], arg[4]))

\* Some prefix of the result, one document at least, is a prefix of the
\* chosen documents, and every document after it names a query entity that
\* the documents before it do not cover.
AnchoredAdditions(chosen_docs, query_entities, result) ==
    \E k \in 1..Len(result) :
        /\ k <= Len(chosen_docs)
        /\ Take(result, k) = Take(chosen_docs, k)
        /\ \A j \in (k + 1)..Len(result) :
              DocEntities(result[j])
                \cap (query_entities \ CoveredBy(Take(result, j - 1))) # {}

\* C22: for final_k >= 1 and a chosen list that is not empty, the augmenter
\* returns between 1 and final_k documents, the first of them is the first
\* chosen document, every document after the kept chosen ones names a query
\* entity that was still missing when it was added, and when the chosen
\* documents cover every query entity the result is the chosen list cut to
\* final_k.
C22_AugmenterBounds ==
    (AugmentCalled /\ arg[4] >= 1 /\ arg[1] # <<>>)
        => /\ Len(ret[1]) \in 1..arg[4]
           /\ ret[1][1] = arg[1][1]
           /\ AnchoredAdditions(arg[1], arg[3], ret[1])
           /\ (arg[3] \subseteq CoveredBy(arg[1]))
                 => ret[1] = Take(arg[1], arg[4])

\* Two chosen documents for final_k = 2 that leave an entity uncovered: the
\* second one is dropped and a candidate that names the missing entity
\* takes its place.
C22_Witness ==
    /\ AugmentCalled
    /\ arg[4] = 2
    /\ Len(arg[1]) = 2
    /\ ~(arg[3] \subseteq CoveredBy(arg[1]))
    /\ Len(ret[1]) = 2
    /\ ret[1][1] = arg[1][1]
    /\ ret[1][2] # arg[1][2]

\* ------------------------------------------------------ resolver properties
ResolveCalled == fn = "_resolve_tag_ambiguity" /\ ret # <<>>

\* The buckets of the scored list the resolver was called with.
Buckets == GroupScoredByTagSignature(arg[1], arg[4].strict_sig)

\* hit of a bucket: the query entities found on any of its documents.
Hit(bucket) ==
    Cardinality(arg[2].entities
                  \cap UNION {sd.doc.entities : sd \in Range(bucket)})

\* The resolver gets to the entity-coverage step: two buckets or more, no
\* overview override, not generic-underspecified.
ReachesEntityResolve ==
    /\ arg[1] # <<>>
    /\ Len(Buckets) >= 2
    /\ ~(arg[2].generic_query /\ ~arg[2].facet)

\* The hit of each bucket, in bucket order.
HitsOf(buckets) == [j \in 1..Len(buckets) |-> Hit(buckets[j])]

\* Bucket i alone attains the maximum of hits, and the hit is enough to
\* resolve.
SoleMaxHitOf(hits, i) ==
    /\ hits[i] >= 1
    /\ \A j \in 1..Len(hits) : j # i => hits[j] < hits[i]
    /\ arg[4].require_full_entity_coverage
         => hits[i] = Cardinality(arg[2].entities)

SoleMaxHit(i) == SoleMaxHitOf(HitsOf(Buckets), i)

\* The resolver returned the anchor of the bucket that alone attains the
\* maximum hit, when there is one.
PicksSoleMaxHit(buckets, hits) ==
    \A i \in 1..Len(buckets) :
        SoleMaxHitOf(hits, i)
           => /\ ret[1].auto_resolved
              /\ ret[1].options = <<>>
              /\ ret[1].docs # <<>>
              /\ ret[1].docs[1] = buckets[i][1].doc

\* C16: with entity resolve enabled, when the resolver gets to the
\* entity-coverage step and exactly one bucket attains the maximum number of
\* query entities hit (at least one, and all of them when full coverage is
\* required), the resolver auto-resolves and the first returned document is
\* that bucket's anchor, whatever the best distances of the other buckets.
C16_EntityResolvePicksSoleMaxHit ==
    (ResolveCalled /\ arg[4].enable_entity_resolve /\ ReachesEntityResolve)
        => PicksSoleMaxHit(Buckets, HitsOf(Buckets))

\* The two-entity bucket wins with hit 2 against hit 1 although the other
\* bucket holds the closest document.
C16_Witness ==
    /\ ResolveCalled
    /\ arg[4].enable_entity_resolve
    /\ arg[4].require_full_entity_coverage
    /\ ReachesEntityResolve
    /\ Len(Buckets) = 2
    /\ SoleMaxHit(2)
    /\ Hit(Buckets[2]) = 2
    /\ Hit(Buckets[1]) = 1
    /\ Buckets[1][1].score < Buckets[2][1].score
    /\ ret[1].docs[1] = Buckets[2][1].doc

\* The largest hit of any bucket.
MaxHit ==
    CHOOSE h \in {Hit(Buckets[i]) : i \in 1..Len(Buckets)} :
        \A i \in 1..Len(Buckets) : Hit(Buckets[i]) <= h

\* best(bucket 1) - best(bucket 0) of the full bucket list reaches the
\* minimum group gap.
GroupGapOnBuckets ==
    Buckets[2][1].score - Buckets[1][1].score >= MinGroupGap

\* C23: with entity resolve enabled and full coverage required, when the
\* resolver gets to the entity-coverage step and no bucket hits every query
\* entity, entity resolve neither chooses nor narrows: the outcome is the
\* one of the group-gap step on the full bucket list (its first bucket when
\* the gap is reached, otherwise, with no embedder, options built from the
\* full bucket list), also when one bucket alone attains the largest hit.
C23_FullCoverageRequired ==
    (/\ ResolveCalled
     /\ arg[4].enable_entity_resolve
     /\ arg[4].require_full_entity_coverage
     /\ ReachesEntityResolve
     /\ MaxHit < Cardinality(arg[2].entities))
        => IF GroupGapOnBuckets
           THEN /\ ret[1].auto_resolved
                /\ ret[1].docs # <<>>
                /\ ret[1].docs[1] = Buckets[1][1].doc
           ELSE /\ ~ret[1].auto_resolved
                /\ ret[1].options
                     = PrepareRetrievalOptions(Buckets, arg[4], Max(1, arg[3]))

\* The second bucket alone hits one of two query entities, the first none,
\* and the buckets are too close for the group gap: both are offered.
C23_Witness ==
    /\ ResolveCalled
    /\ arg[4].enable_entity_resolve
    /\ arg[4].require_full_entity_coverage
    /\ ReachesEntityResolve
    /\ Len(Buckets) = 2
    /\ Cardinality(arg[2].entities) = 2
    /\ Hit(Buckets[1]) = 0
    /\ Hit(Buckets[2]) = 1
    /\ ~GroupGapOnBuckets
    /\ ~ret[1].auto_resolved
    /\ Len(ret[1].options) = 2

\* -------------------------------------------------------- option properties
\* The buckets the resolver of this invocation worked on.
PresentedGroups ==
    AmbiguityGroups(FetchScoredDocsL2(index.listing, CalculateSafeFetchK),
                    input, cfg).groups

\* The gate came back ambiguous, the resolver presented two buckets or more
\* as options, and deduplication left a single option.
Collapsed ==
    /\ gate = "ambiguous"
    /\ ~resolver.auto_resolved
    /\ Len(PresentedGroups) >= 2
    /\ Len(resolver.raw_options) = 1

\* C17, as stated: when the gate returns ambiguous and the buckets presented
\* as options collapse under deduplication to a single option, the outcome
\* is status ok with exactly that option's documents.
C17_CollapseIsOk ==
    (Terminal /\ Collapsed)
        => /\ status = "ok"
           /\ outcome.status = "ok"
           /\ docs = resolver.raw_options[1].docs

\* C17, amended: when the options collapse to a single option the outcome is
\* status ok with exactly that option's documents, never ambiguous, unless
\* the coverage gate finds a query entity missing from them (compare query
\* with two or more entities, or generic query with at least one), and then
\* it is refused for missing coverage with no documents.
C17_CollapseIsOkUnlessCoverage ==
    (Terminal /\ Collapsed)
        => LET only == resolver.raw_options[1].docs
               missing == input.entities \ EntitiesIn(only)
               uncovered ==
                   /\ cfg.coverage_enabled
                   /\ missing # {}
                   /\ \/ input.compare /\ Cardinality(input.entities) >= 2
                      \/ input.generic
           IN  IF uncovered
               THEN /\ status = "refuse"
                    /\ outcome.status = "refuse"
                    /\ refusal_reason.kind = "Missing document coverage"
                    /\ refusal_reason.missing = missing
                    /\ docs = <<>>
               ELSE /\ status = "ok"
                    /\ outcome.status = "ok"
                    /\ options = <<>>
                    /\ docs = only
                    /\ outcome.source_documents = only

\* Two buckets with the same (filename, page) sources became one option and
\* the outcome is ok with its documents.
C17_Witness ==
    /\ Terminal
    /\ Collapsed
    /\ Len(PresentedGroups) = 2
    /\ status = "ok"
    /\ docs = resolver.raw_options[1].docs

DeduplicateCalled == fn = "_deduplicate_options" /\ ret # <<>>

\* C18: in every option list the option presenter returns after
\* deduplication, the option_id values are 1..len(options) in list order,
\* whichever options were dropped.
C18_OptionIdsContiguous ==
    DeduplicateCalled
        => \A i \in 1..Len(ret[1]) : ret[1][i].option_id = i

\* The second of three options was dropped and the third became option 2.
C18_Witness ==
    /\ DeduplicateCalled
    /\ Len(arg[1]) = 3
    /\ Len(ret[1]) = 2
    /\ OptionSignature(arg[1][2]) = OptionSignature(arg[1][1])
    /\ ret[1][2].docs = arg[1][3].docs
    /\ ret[1][2].option_id = 2

\* ------------------------------------------------------- failure properties
\* The vector store or the embedder raised in this invocation.
BackendFailed == "raise" \in Range(log)

\* The exception left chain.invoke: the invocation has no outcome.
Raised == pc = "raised"

\* C19: when the vector-store search or an embedding call raises, no
\* exception leaves the invocation, and its outcome is status refuse with a
\* Backend error (or Internal error) reason and no documents.
C19_BackendFailureRefused ==
    BackendFailed
        => /\ ~Raised
           /\ Terminal => /\ outcome.status = "refuse"
                          /\ refusal_reason.kind \in {"Backend error",
                                                      "Internal error"}
                          /\ docs = <<>>

\* ------------------------------------------------------- refusal properties
\* C20: once a stage has set status refuse, every later stage of the same
\* invocation leaves status, the (empty) docs and refusal_reason as they
\* are: no stage turns a refusal into ok or ambiguous.
C20_RefusalAbsorbing ==
    [][(status = "refuse" /\ pc' # "ood")
         => /\ status' = "refuse"
            /\ docs = <<>>
            /\ docs' = <<>>
            /\ refusal_reason # NoReason
            /\ refusal_reason' = refusal_reason]_vars

\* The retriever refused, and the stages after it, the LLM call included,
\* ran on the refused state up to the outcome.
C20_Witness ==
    /\ Terminal
    /\ status = "refuse"
    /\ gate = "refuse"
    /\ ~skip_llm
    /\ "llm" \in Range(log)
    /\ outcome.status = "refuse"
    /\ outcome.refusal_reason = Reason("No relevant documents found")

\* ------------------------------------------------------- session properties
\* The state _step returns for the query in a process whose cache is cold.
ColdState(q) ==
    SessionStep(FetchScoredDocsL2(arg[1][q.text], CalculateSafeFetchK), q,
                SessionConfig, NoCache, arg[2]).state

\* C21: two invocations with the same request, configuration and store
\* contents return equal status, docs, options and refusal_reason, whatever
\* queries ran in between and whatever the signature-embedding cache holds:
\* every invocation returns what a cold-cache invocation returns.
C21_SameRequestSameOutcome ==
    fn = "session"
        => \A q \in SessionQueries :
             \A i \in 1..Len(ret[q.text]) : ret[q.text][i] = ColdState(q)

\* A query answered through the signature tie-break a second time, with a
\* cache that another query has filled in between.
C21_Witness ==
    /\ fn = "session"
    /\ Len(ret["mqtt vs kafka"]) = 2
    /\ Len(ret["iot bluetooth pairing"]) >= 1
    /\ Cardinality(CacheDict(cache)) = 3
    /\ ret["mqtt vs kafka"][2].status = "ok"
    /\ ret["iot bluetooth pairing"][1].status = "ok"

\* ---------------------------------------- properties: the resolver's steps
\* The anchors of the first max_options buckets.
ShownAnchors ==
    {Buckets[i][1].doc : i \in 1..Min(MaxOptions, Len(Buckets))}

\* C24: with keep_ambiguous_for_generic_queries enabled, on a query that is
\* generic and not a facet query, the resolver never auto-resolves two
\* buckets or more: it calls no embedder and returns the options of the
\* first max_options buckets, whatever entity resolve, the group gap or the
\* embedder would decide; with exactly one bucket it auto-resolves to that
\* bucket and _step returns ok.
C24_OverviewKeepsAmbiguous ==
    (/\ ResolveCalled
     /\ arg[1] # <<>>
     /\ arg[4].keep_ambiguous_for_generic_queries
     /\ IsGenericQuery(arg[2], arg[4])
     /\ ~IsFacetQuery(arg[2], arg[4]))
        => IF Len(Buckets) >= 2
           THEN /\ ~ret[1].auto_resolved
                /\ ~ret[1].embedded
                /\ ret[1].options
                     = PrepareRetrievalOptions(Take(Buckets, MaxOptions),
                                               arg[4], Max(1, arg[3]))
                /\ \A i \in 1..Len(ret[1].options) :
                      ret[1].options[i].docs[1] \in ShownAnchors
           ELSE /\ ret[1].auto_resolved
                /\ ret[1].docs # <<>>
                /\ ret[1].docs[1] = Buckets[1][1].doc
                /\ StepResolved(ret[1]).state.status = "ok"

\* An overview query that names aws_iot_jobs with the shipped configuration,
\* three buckets of which only the second names that entity and whose first
\* is ahead of the second by the minimum group gap: entity resolve would
\* choose the second bucket, the group gap the first, and the first two are
\* returned as options.
C24_Witness ==
    /\ ResolveCalled
    /\ arg[4] = ShippedConfig
    /\ IsGenericQuery(arg[2], arg[4])
    /\ ~IsFacetQuery(arg[2], arg[4])
    /\ arg[2].entities = {"aws_iot_jobs"}
    /\ Len(Buckets) = 3
    /\ Hit(Buckets[1]) = 0
    /\ Hit(Buckets[2]) = 1
    /\ Hit(Buckets[3]) = 0
    /\ GroupGapOnBuckets
    /\ ~ret[1].auto_resolved
    /\ Len(ret[1].options) = 2
    /\ ret[1].options[2].docs[1] = Buckets[2][1].doc

\* The buckets left after the entity-coverage step: the ones it narrowed the
\* list to, or all of them when it returned None.
Remaining ==
    LeftGroups(Buckets, ResolveByEntityCoverage(Buckets, arg[2], arg[4]))

\* The entity-coverage step left exactly one bucket.
EntityDecides ==
    /\ ResolveByEntityCoverage(Buckets, arg[2], arg[4]).some
    /\ Len(Remaining) = 1

\* best(bucket 1) - best(bucket 0) of the remaining buckets reaches the
\* minimum group gap.
GroupGapOnRemaining ==
    /\ Len(Remaining) >= 2
    /\ Remaining[2][1].score - Remaining[1][1].score >= MinGroupGap

\* The resolver returned these documents' bucket without calling the
\* embedder.
ChoseWithoutEmbedding(bucket) ==
    /\ ret[1].auto_resolved
    /\ ret[1].options = <<>>
    /\ ret[1].docs # <<>>
    /\ ret[1].docs[1] = bucket[1].doc
    /\ ~ret[1].embedded

\* The outcome the step order prescribes: entity is whether the
\* entity-coverage step returned buckets, remaining the buckets left after it.
StepOrderOn(entity, remaining) ==
    IF entity /\ Len(remaining) = 1
    THEN ChoseWithoutEmbedding(remaining[1])
    ELSE IF /\ Len(remaining) >= 2
            /\ remaining[2][1].score - remaining[1][1].score >= MinGroupGap
    THEN ChoseWithoutEmbedding(remaining[1])
    ELSE /\ ret[1].embedded = HasEmbedder(arg[4])
         /\ IF arg[5].some
            THEN /\ ret[1].auto_resolved
                 /\ ret[1].docs # <<>>
                 /\ ret[1].docs[1] = arg[5].docs[1]
            ELSE /\ ~ret[1].auto_resolved
                 /\ ret[1].options
                      = PrepareRetrievalOptions(remaining, arg[4],
                                                Max(1, arg[3]))

\* C25: past the overview override the steps are tried in the order entity
\* coverage, group gap, embedding tie-break, options, and the first that
\* succeeds decides: one bucket left by entity coverage is chosen; otherwise,
\* with two buckets or more remaining and best(bucket 1) - best(bucket 0) >=
\* min_group_gap, bucket 0 is chosen and the embedder is not called;
\* otherwise the embedder is called when there is one and its winner is
\* chosen; otherwise the remaining buckets are returned as options.
C25_StepOrder ==
    (ResolveCalled /\ ReachesEntityResolve)
        => StepOrderOn(ResolveByEntityCoverage(Buckets, arg[2], arg[4]).some,
                       Remaining)

\* The shipped configuration with its embedder, a query whose entity both
\* remaining buckets hit, and the first bucket ahead of the second by the
\* minimum group gap: the first bucket is chosen, no embedding is asked for.
C25_Witness ==
    /\ ResolveCalled
    /\ ReachesEntityResolve
    /\ arg[4] = ShippedConfig
    /\ arg[2].entities # {}
    /\ ~EntityDecides
    /\ GroupGapOnRemaining
    /\ ChoseWithoutEmbedding(Remaining[1])

\* ------------------------------------------ properties: the tie-breakers
TiebreakCalled == fn = "_tiebreak_groups_by_query_aware" /\ ret # <<>>

\* The buckets of the candidates the tie-break was called on.
TiedBuckets == GroupScoredByTagSignature(arg[1], arg[4].strict_sig)

\* Candidate i has the highest similarity, at least min_sim, and leads every
\* other candidate by min_sim_gap at least.
Accepted(sims, i, min_sim, min_sim_gap) ==
    /\ sims[i] >= min_sim
    /\ \A j \in 1..Len(sims) : j # i => sims[i] - sims[j] >= min_sim_gap

SigAccepted(i) ==
    arg[4].enable_sig_tiebreak /\ Accepted(arg[2], i, MinSigSim, MinSigSimGap)

AnchorAccepted(i) ==
    arg[4].enable_anchor_tiebreak
        /\ Accepted(arg[3], i, MinAnchorSim, MinAnchorSimGap)

\* The resolver returned bucket i.
ChoseBucket(i) ==
    /\ ret[1].result.auto_resolved
    /\ ret[1].result.options = <<>>
    /\ ret[1].result.docs # <<>>
    /\ ret[1].result.docs[1] = TiedBuckets[i][1].doc

BothReturned == \A t \in Threads : threads[t].pc = "done"

\* The cache holds the embedder's vector for the text.
Cached(text) ==
    /\ HasKey(CacheDict(cache), text)
    /\ Lookup(CacheDict(cache), text) = arg[1][text]

\* C27: when two concurrent calls of _embed_text_cached have returned, on
\* the same text or on different texts, with the cache attribute present or
\* not before them, the cache holds the entry of each call, and what each
\* call returned is the embedder's vector for its text.
C27_ConcurrentMissesBothCached ==
    (fn = "_embed_text_cached" /\ BothReturned)
        => \A t \in Threads :
             /\ Cached(threads[t].text)
             /\ threads[t].vector = <<arg[1][threads[t].text]>>

\* ------------------------------------------- properties: the tag clusterer
ClusterCalled == fn = "_group_scored_by_tag_signature" /\ ret # <<>>

\* Some field of the document's tag signature is not null.
Tagged(doc) == \E i \in 1..Len(doc.sig) : doc.sig[i] # Null

\* Two documents belong together: both tagged with one signature, or both
\* untagged with one source file name.
Alike(a, b) ==
    IF Tagged(a) /\ Tagged(b) THEN a.sig = b.sig
    ELSE IF ~Tagged(a) /\ ~Tagged(b) THEN Filename(a) = Filename(b)
    ELSE FALSE

\* The places of a candidate in the buckets.
PlacesOf(groups, sd) ==
    {<<i, j>> \in (1..Len(groups)) \X (1..MaxFetch) :
        j <= Len(groups[i]) /\ groups[i][j] = sd}

\* C28: the buckets are an ordered partition of the candidates: every
\* candidate is in exactly one bucket and nothing else is, two candidates
\* are in one bucket exactly when they have the same signature (the source
\* file name standing in for a signature whose fields are all null), no
\* bucket is empty, every bucket is sorted by distance ascending and the
\* buckets are sorted by their best distance ascending.
C28_OrderedPartition ==
    ClusterCalled
        => /\ \A k \in 1..Len(arg[1]) :
                Cardinality(PlacesOf(ret[1], arg[1][k])) = 1
           /\ \A i \in 1..Len(ret[1]) :
                /\ ret[1][i] # <<>>
                /\ Range(ret[1][i]) \subseteq Range(arg[1])
                /\ \A j \in 1..(Len(ret[1][i]) - 1) :
                      ret[1][i][j].score <= ret[1][i][j + 1].score
           /\ \A i \in 1..(Len(ret[1]) - 1) :
                ret[1][i][1].score <= ret[1][i + 1][1].score
           /\ \A i, j \in 1..Len(ret[1]) :
                \A a \in Range(ret[1][i]), b \in Range(ret[1][j]) :
                    Alike(a.doc, b.doc) <=> i = j

\* Three untagged chunks: the two of a.pdf, from different directories, make
\* one bucket and the one of b.pdf, the closest, another before it.
C28_Witness ==
    /\ ClusterCalled
    /\ Len(arg[1]) = 3
    /\ \A k \in 1..3 : ~Tagged(arg[1][k].doc)
    /\ Len(ret[1]) = 2
    /\ Len(ret[1][1]) = 1
    /\ Filename(ret[1][1][1].doc) = "b.pdf"
    /\ Len(ret[1][2]) = 2
    /\ ret[1][2][1].doc.source # ret[1][2][2].doc.source
    /\ ret[1][2][1].score < ret[1][2][2].score

\* --------------------------------------- properties: the option presenter
PrepareCalled == fn = "_prepare_retrieval_options" /\ ret # <<>>

\* The buckets the options were built from.
PresentedBuckets ==
    GroupScoredByTagSignature(arg[1], ShippedConfig.strict_sig)

\* (filename, page) of a document and of a source reference.
DocPair(doc) == <<Filename(doc), NormalizePage(doc.page)>>
SourcePair(src) == <<src.filename, src.page>>

\* docs[0] is the closest document of the bucket and every document of the
\* option is one of the bucket's.
BuiltFrom(option, bucket) ==
    /\ option.docs[1] = bucket[1].doc
    /\ \A sd \in Range(bucket) : bucket[1].score <= sd.score
    /\ option.best_l2 = bucket[1].score
    /\ Range(option.docs) \subseteq Range(DocsOf(bucket))

\* The sources are the documents' (filename, page) pairs, once each, in
\* ascending order of (filename, str(page)).
SourcesMatch(option) ==
    /\ Len(option.sources) = Len(option.docs)
    /\ {SourcePair(src) : src \in Range(option.sources)}
         = {DocPair(d) : d \in Range(option.docs)}
    /\ \A i \in 1..(Len(option.sources) - 1) :
          LexLess(SourceKey(option.sources[i]), SourceKey(option.sources[i + 1]))

\* C29: every option the presenter returns has the closest document of one
\* bucket first, between 1 and final_k documents, all of that bucket, no two
\* of them with the same (filename, page), and as sources exactly the
\* documents' (filename, page) pairs in the order of (filename, str(page)),
\* so as many sources as documents.
C29_OptionWellFormed ==
    PrepareCalled
        => \A n \in 1..Len(ret[1]) :
             /\ \E i \in 1..Len(PresentedBuckets) :
                   BuiltFrom(ret[1][n], PresentedBuckets[i])
             /\ Len(ret[1][n].docs) \in 1..arg[2]
             /\ \A i, j \in 1..Len(ret[1][n].docs) :
                   i < j => DocPair(ret[1][n].docs[i]) # DocPair(ret[1][n].docs[j])
             /\ SourcesMatch(ret[1][n])

\* final_k = 2 and three candidates in two buckets: one option has two
\* documents, two pages of one file, and two sources; the other has one.
C29_Witness ==
    /\ PrepareCalled
    /\ arg[2] = 2
    /\ Len(arg[1]) = 3
    /\ Len(PresentedBuckets) = 2
    /\ Len(ret[1]) = 2
    /\ \E n \in 1..2 :
          /\ Len(ret[1][n].docs) = 2
          /\ Len(ret[1][n].sources) = 2
          /\ ret[1][n].sources[1].page < ret[1][n].sources[2].page
          /\ Len(ret[1][3 - n].docs) = 1

\* ------------------------------------------------- properties: relevance
\* The distance the store gave the document in this session.
DistanceOf(doc) ==
    (CHOOSE sd \in Range(index.listing) : sd.doc = doc).score

\* The documents the options hold.
OptionDocs(opts) == UNION {Range(opts[i].docs) : i \in 1..Len(opts)}

\* C30: when a first call ends, every document cited by an ok outcome and
\* every document of a presented option has a distance of at most max_l2.
C30_RelevanceBound ==
    (Terminal /\ call = "first")
        => /\ outcome.status = "ok"
                => \A d \in Range(docs) : DistanceOf(d) <= MaxL2
           /\ outcome.status = "ambiguous"
                => \A d \in OptionDocs(outcome.options) : DistanceOf(d) <= MaxL2

====
